---- MODULE Spec2Model ----
(***************************************************************************)
(* Model of the local trading-card cache manager download-tcg-cards.js.    *)
(* The file holds two variants of the script: the first (lines 1-903)      *)
(* talks to the remote API only and runs sequentially, the second (lines   *)
(* 904-1965) adds the GitHub bulk data source and chunked concurrency.     *)
(*                                                                         *)
(* The cache is a directory per Pokedex number holding NN.png image files, *)
(* metadata.json and the .empty marker.                                    *)
(***************************************************************************)
EXTENDS Integers, Sequences, FiniteSets, TLC

\* ------------------------------------------------------------------ bounds
\* Largest Pokedex number of the batch specification.
MaxKey == 2
\* Largest value of --limit.
MaxLimit == 2
\* Number of distinct cards the data sources know.
NumCards == 3

\* ------------------------------------------------------------------ data
\* A card is its id; cards 1,2 belong to set 1, cards 3,4 to set 2, ...
Cards == 1..NumCards
SetOf(c) == (c + 1) \div 2

\* Content of an image file slot NN.png: 0 is "no such file", a card id is
\* that card's complete image, Truncated a file a failed write left behind.
NoFile == 0
Truncated == NumCards + 1
Slots == 1..MaxLimit

\* The .empty marker: absent, or present with the reason text the code wrote.
NoMarker == "none"
ApiFailed == "API failed"
NoCardsFound == "No cards found"
NoCardsInGithub == "No cards found in GitHub data"

\* A directory that does not exist. Of a directory that exists: its image
\* files, whether metadata.json is among its entries (hasMeta), whether that
\* file holds less than a whole record (torn: opened for writing and not yet
\* written to the end), the cards of the record, and the .empty marker.
Absent ==
  [dir |-> FALSE, png |-> [s \in Slots |-> NoFile], hasMeta |-> FALSE,
   torn |-> FALSE, cards |-> <<>>, empty |-> NoMarker]

\* The .png files of a directory listing: files.filter(f => f.endsWith('.png')).
pngFiles(d) == {s \in DOMAIN d.png : d.png[s] # NoFile}

\* fs.mkdir(pokemonDir, {recursive: true}): creates the directory when missing.
mkdir(d) == [d EXCEPT !.dir = TRUE]

\* ------------------------------------------------------------------ helpers
Min(a, b) == IF a < b THEN a ELSE b

RECURSIVE SeqFilter(_, _)
\* The subsequence of s whose elements are in the set keep.
SeqFilter(s, keep) ==
  IF s = <<>> THEN <<>>
  ELSE IF Head(s) \in keep THEN <<Head(s)>> \o SeqFilter(Tail(s), keep)
       ELSE SeqFilter(Tail(s), keep)

Range(s) == {s[i] : i \in DOMAIN s}

\* A JavaScript property read used as a condition: a property the object
\* does not have reads as undefined, which is falsy.
Prop(obj, name) == IF name \in DOMAIN obj THEN obj[name] ELSE FALSE

\* ------------------------------------------------------------------ selection
RECURSIVE firstPassNoSeen(_, _, _, _)
\* Mutant of firstPass: seenSets.add is forgotten.
firstPassNoSeen(cards, limit, seenSets, unique) ==
  IF cards = <<>> THEN unique
  ELSE IF SetOf(Head(cards)) \notin seenSets
       THEN IF Len(unique) + 1 >= limit
            THEN Append(unique, Head(cards))
            ELSE firstPassNoSeen(Tail(cards), limit, seenSets,
                                 Append(unique, Head(cards)))
       ELSE firstPassNoSeen(Tail(cards), limit, seenSets, unique)

RECURSIVE firstPass(_, _, _, _)
\* The first loop of diversifyCards and the loop of fetchPokemonCards: the
\* first card of each set not seen before; the loop breaks as soon as
\* unique.length >= limit, a test made only after a push.
firstPass(cards, limit, seenSets, unique) ==
  IF cards = <<>> THEN unique
  ELSE IF SetOf(Head(cards)) \notin seenSets
       THEN IF Len(unique) + 1 >= limit
            THEN Append(unique, Head(cards))
            ELSE firstPass(Tail(cards), limit, seenSets \cup {SetOf(Head(cards))},
                           Append(unique, Head(cards)))
       ELSE firstPass(Tail(cards), limit, seenSets, unique)

RECURSIVE secondPassBySet(_, _, _)
\* Mutant of secondPass: a candidate is passed over when a card of its set is
\* chosen already, not when the candidate itself is.
secondPassBySet(cards, limit, unique) ==
  IF cards = <<>> THEN unique
  ELSE IF SetOf(Head(cards)) \notin {SetOf(c) : c \in Range(unique)}
       THEN IF Len(unique) + 1 >= limit
            THEN Append(unique, Head(cards))
            ELSE secondPassBySet(Tail(cards), limit, Append(unique, Head(cards)))
       ELSE secondPassBySet(Tail(cards), limit, unique)

RECURSIVE secondPassUnshift(_, _, _)
\* Mutant of secondPass: the card is put in front (unshift) and not at the
\* end (push).
secondPassUnshift(cards, limit, unique) ==
  IF cards = <<>> THEN unique
  ELSE IF Head(cards) \notin Range(unique)
       THEN IF Len(unique) + 1 >= limit
            THEN <<Head(cards)>> \o unique
            ELSE secondPassUnshift(Tail(cards), limit, <<Head(cards)>> \o unique)
       ELSE secondPassUnshift(Tail(cards), limit, unique)

RECURSIVE secondPass(_, _, _)
\* The second loop of diversifyCards: cards whose id is not chosen yet, in
\* input order, until unique.length >= limit.
secondPass(cards, limit, unique) ==
  IF cards = <<>> THEN unique
  ELSE IF Head(cards) \notin Range(unique)
       THEN IF Len(unique) + 1 >= limit
            THEN Append(unique, Head(cards))
            ELSE secondPass(Tail(cards), limit, Append(unique, Head(cards)))
       ELSE secondPass(Tail(cards), limit, unique)

\* diversifyCards(cards, limit) of the bulk data source.
diversifyCards(cards, limit) ==
  LET unique == firstPass(cards, limit, {}, <<>>)
  IN IF Len(unique) < limit THEN secondPass(cards, limit, unique) ELSE unique

\* What fetchPokemonCards returns for the API answer `data`: one card per set.
fetchPokemonCards(data, limit) == firstPass(data, limit, {}, <<>>)

\* ------------------------------------------------------------------ status
\* Mutant of checkPokemonDownloaded: the declaration the first variant
\* shadows, whose exists is true for every directory that can be read.
checkPokemonDownloadedDirExists(d) ==
  IF d.dir
  THEN [exists |-> TRUE, count |-> Cardinality(pngFiles(d)),
        hasMetadata |-> d.hasMeta]
  ELSE [exists |-> FALSE, count |-> 0, hasMetadata |-> FALSE]

\* checkPokemonDownloaded as it runs in both variants (each declares the
\* function twice; the later declaration is the one in effect).
checkPokemonDownloaded(d) ==
  IF d.dir
  THEN [exists |-> pngFiles(d) # {}, count |-> Cardinality(pngFiles(d)),
        hasMetadata |-> d.hasMeta]
  ELSE [exists |-> FALSE, count |-> 0, hasMetadata |-> FALSE]

\* fs.access(path.join(status.dir, '.empty')) succeeds.
emptyFileAccessible(d) == d.dir /\ d.empty # NoMarker

\* Mutant of classify2: the .empty marker is looked at before the image files.
classify2MarkerFirst(d) ==
  IF d.dir /\ d.hasMeta /\ pngFiles(d) # {} THEN "complete"
  ELSE IF d.dir /\ d.empty # NoMarker THEN "empty"
  ELSE IF d.dir THEN "incomplete"
  ELSE "missing"

\* Mutant of classify2: a key with an image file is complete, with or without
\* metadata.json.
classify2ImagesSuffice(d) ==
  LET status == checkPokemonDownloaded(d)
  IN IF status.exists THEN "complete"
     ELSE IF emptyFileAccessible(d) THEN "empty"
     ELSE "missing"

\* The branch analyzeCache of the second variant takes for one key.
classify2(d) ==
  LET status == checkPokemonDownloaded(d)
  IN IF status.exists /\ status.hasMetadata THEN "complete"
     ELSE IF status.exists /\ ~status.hasMetadata THEN "incomplete"
     ELSE IF emptyFileAccessible(d) THEN "empty"
     ELSE "missing"

\* The branch analyzeCache of the first variant takes for one key; isBroken
\* and isEmptyMarker are read from the status object.
classify1(d) ==
  LET status == checkPokemonDownloaded(d)
  IN IF status.exists /\ status.hasMetadata /\ status.count > 0 THEN "complete"
     ELSE IF status.exists /\ Prop(status, "isBroken") THEN "incomplete"
     ELSE IF status.exists /\ Prop(status, "isEmptyMarker") THEN "empty"
     ELSE "missing"

classify(v, d) == IF v = 1 THEN classify1(d) ELSE classify2(d)

EmptyAnalysis ==
  [complete |-> <<>>, incomplete |-> <<>>, empty |-> <<>>, missing |-> <<>>,
   total |-> 0]

RECURSIVE analyzeLoopFallThrough(_, _, _, _, _)
\* Mutant of analyzeLoop: the final else is an unconditional push, so that a
\* key already pushed to incomplete or empty is pushed to missing as well.
analyzeLoopFallThrough(v, c, i, end, analysis) ==
  IF i > end THEN analysis
  ELSE LET d == IF i \in DOMAIN c THEN c[i] ELSE Absent
           class == classify(v, d)
           pushed ==
             IF class = "complete"
             THEN [analysis EXCEPT !.complete =
                     Append(@, [num |-> i, count |-> checkPokemonDownloaded(d).count])]
             ELSE IF class = "missing"
             THEN [analysis EXCEPT !.missing = Append(@, i)]
             ELSE [analysis EXCEPT ![class] = Append(@, i),
                                   !.missing = Append(@, i)]
       IN analyzeLoopFallThrough(v, c, i + 1, end,
                                 [pushed EXCEPT !.total = @ + 1])

RECURSIVE analyzeLoop(_, _, _, _, _)
\* The for loop of analyzeCache from i to end over the cache c.
analyzeLoop(v, c, i, end, analysis) ==
  IF i > end THEN analysis
  ELSE LET d == IF i \in DOMAIN c THEN c[i] ELSE Absent
           class == classify(v, d)
           pushed ==
             IF class = "complete"
             THEN [analysis EXCEPT !.complete =
                     Append(@, [num |-> i, count |-> checkPokemonDownloaded(d).count])]
             ELSE [analysis EXCEPT ![class] = Append(@, i)]
       IN analyzeLoop(v, c, i + 1, end, [pushed EXCEPT !.total = @ + 1])

\* analyzeCache(start, end) of variant v on the cache c.
analyzeCache(v, c, start, end) == analyzeLoop(v, c, start, end, EmptyAnalysis)

RECURSIVE Insert(_, _)
Insert(x, sorted) ==
  IF sorted = <<>> THEN <<x>>
  ELSE IF x < Head(sorted) THEN <<x>> \o sorted
       ELSE <<Head(sorted)>> \o Insert(x, Tail(sorted))

RECURSIVE SortAsc(_)
\* Array.prototype.sort((a, b) => a - b).
SortAsc(s) == IF s = <<>> THEN <<>> ELSE Insert(Head(s), SortAsc(Tail(s)))

\* Mutant of toDownload: the list is not sorted.
toDownloadUnsorted(analysis, retryFailed) ==
  analysis.incomplete \o analysis.missing
  \o (IF retryFailed THEN analysis.empty ELSE <<>>)

\* Mutant of toDownload: the missing keys are left out.
toDownloadWithoutMissing(analysis, retryFailed) ==
  SortAsc(analysis.incomplete \o (IF retryFailed THEN analysis.empty ELSE <<>>))

\* The toDownload list of downloadMissing.
toDownload(analysis, retryFailed) ==
  SortAsc(analysis.incomplete \o analysis.missing
          \o (IF retryFailed THEN analysis.empty ELSE <<>>))

\* ------------------------------------------------------------------ state
VARIABLES
  variant,   \* 1: the API-only script, 2: the script with --use-github / --concurrent
  cache,     \* Pokedex number -> content of its directory under OUTPUT_DIR
  task,      \* Pokedex number -> the downloadPokemonCards call in flight for it
  run,       \* the command main() is executing, "none" between two invocations
  lastCall,  \* observed Pokedex number -> result of its latest completed
             \* downloadPokemonCards call, NoCall once something else touched it
  mock       \* the mocked data source of a two-run comparison and what the
             \* comparison remembers; NoMock when the sources are not mocked

vars == <<variant, cache, task, run, lastCall, mock>>

\* No mocked data source: every lookup and every download can end any way.
NoMock ==
  [stage |-> 0, adapter |-> <<>>, init |-> <<>>, options |-> <<>>, first |-> <<>>]

Keys == DOMAIN cache

\* What a call returned ({skipped, count}) or that it threw, with what it did
\* on the way: looked (the data source was asked for the key's cards), net (a
\* request went out: the API query or an image download), wroteEmpty and
\* wroteMeta (it wrote .empty, metadata.json).
NoCall ==
  [valid |-> FALSE, force |-> FALSE, skipped |-> FALSE, threw |-> FALSE,
   count |-> 0, looked |-> FALSE, net |-> FALSE, wroteEmpty |-> FALSE,
   wroteMeta |-> FALSE]

\* CONFIG.RETRY_ATTEMPTS and CONFIG.RETRY_DELAY (ms).
RETRY_ATTEMPTS == 3
RETRY_DELAY == 2000

\* The retryWithBackoff invocation a call is in, or was in last: what it
\* wraps (site), the number of times it invoked fn (calls), the errors of the
\* failed attempts, the delays it awaited (waits), the HTTP response fn is
\* handling (response, pending), whether it is awaiting a delay (waiting) and
\* how it ended (done: "no", "returned", "threw", and then the error thrown).
NoRetry ==
  [site |-> "none", calls |-> 0, errors |-> <<>>, waits |-> <<>>,
   response |-> "none", pending |-> FALSE, waiting |-> FALSE, done |-> "no",
   thrown |-> "none"]

\* A call: its options, the selected cards, the loop index i, the
\* metadata.cards built so far, the image files it wrote, and once it has
\* returned (pc = "returned") its result res.
IdleTask ==
  [pc |-> "idle", limit |-> 0, force |-> FALSE, github |-> FALSE,
   cards |-> <<>>, i |-> 0, meta |-> <<>>, pre |-> Absent, net |-> FALSE,
   wrote |-> {}, res |-> NoCall, retry |-> NoRetry]

ZeroStats ==
  [total |-> 0, success |-> 0, skipped |-> 0, failed |-> 0, cardsDownloaded |-> 0]

IdleRun ==
  [cmd |-> "none", pc |-> "idle", start |-> 0, end |-> 0, force |-> FALSE,
   retryFailed |-> FALSE, useGithub |-> FALSE, concurrent |-> 1, limit |-> 0,
   analysis |-> EmptyAnalysis, list |-> <<>>, next |-> 1, stats |-> ZeroStats,
   calls |-> <<>>, source |-> <<>>, pause |-> FALSE, delays |-> 0,
   saved |-> FALSE, flags |-> {}, exit |-> 0]

inFlight == {k \in Keys : task[k].pc # "idle"}

\* The options parseArgs can hand to a command of variant v: the first
\* variant knows neither --use-github nor --concurrent.
Options(v, limits, concurrents) ==
  [force : BOOLEAN, retryFailed : BOOLEAN,
   useGithub : IF v = 1 THEN {FALSE} ELSE BOOLEAN,
   concurrent : IF v = 1 THEN {1} ELSE concurrents,
   limit : limits]

\* ------------------------------------------------------------------ commands
\* Mutant of Analyze: the analysis creates the directory of every key it
\* looks at, as downloadPokemonCards does.
AnalyzeCreatingDirs(start, end) ==
  /\ run.cmd = "none"
  /\ run' = [IdleRun EXCEPT !.cmd = "analyze", !.pc = "done", !.start = start,
                            !.end = end,
                            !.analysis = analyzeCache(variant, cache, start, end)]
  /\ cache' = [k \in Keys |-> IF k \in start..end THEN mkdir(cache[k]) ELSE cache[k]]
  /\ UNCHANGED <<variant, mock, task, lastCall>>

\* main() with --analyze --range start-end: analyzeCache(start, end).
Analyze(start, end) ==
  /\ run.cmd = "none"
  /\ run' = [IdleRun EXCEPT !.cmd = "analyze", !.pc = "done", !.start = start,
                            !.end = end,
                            !.analysis = analyzeCache(variant, cache, start, end)]
  /\ UNCHANGED <<variant, mock, cache, task, lastCall>>

RECURSIVE pokemonList(_, _)
\* The list downloadRange builds: start, start+1, ..., end.
pokemonList(i, end) == IF i > end THEN <<>> ELSE <<i>> \o pokemonList(i + 1, end)

\* downloadRange(start, end, options) at the head of its loop.
rangeRun(start, end, o) ==
  [IdleRun EXCEPT !.cmd = "download", !.pc = "loop", !.start = start,
                  !.end = end, !.force = o.force, !.useGithub = o.useGithub,
                  !.concurrent = o.concurrent, !.limit = o.limit,
                  !.list = pokemonList(start, end),
                  !.stats = [ZeroStats EXCEPT !.total = Len(pokemonList(start, end))]]

\* main() with --download --range start-end: downloadRange up to its loop.
DownloadRange(start, end, o) ==
  /\ run.cmd = "none"
  /\ run' = rangeRun(start, end, o)
  /\ UNCHANGED <<variant, mock, cache, task, lastCall>>

\* main() with --download-missing --range start-end: downloadMissing up to
\* its loop, or to its early return when nothing is to download.
DownloadMissing(start, end, o) ==
  /\ run.cmd = "none"
  /\ LET analysis == analyzeCache(variant, cache, start, end)
         todo == toDownload(analysis, o.retryFailed)
     IN run' = [IdleRun EXCEPT !.cmd = "downloadMissing",
                               !.pc = IF Len(todo) = 0 THEN "done" ELSE "loop",
                               !.start = start, !.end = end, !.force = o.force,
                               !.retryFailed = o.retryFailed,
                               !.useGithub = o.useGithub,
                               !.concurrent = o.concurrent, !.limit = o.limit,
                               !.analysis = analysis, !.list = todo,
                               !.stats = [ZeroStats EXCEPT !.total = Len(todo)]]
  /\ UNCHANGED <<variant, mock, cache, task, lastCall>>

\* Mutant of cleanedDir: every directory without an image file is removed.
cleanedDirWithoutImages(d) ==
  IF d.dir /\ pngFiles(d) = {} THEN Absent ELSE d

\* What cleanEmpty does to one directory: removed when it holds only .empty
\* or nothing at all.
cleanedDir(d) ==
  LET files == Cardinality(pngFiles(d)) + (IF d.hasMeta THEN 1 ELSE 0)
               + (IF d.empty # NoMarker THEN 1 ELSE 0)
  IN IF ~d.dir THEN d
     ELSE IF files = 1 /\ d.empty # NoMarker THEN Absent
     ELSE IF files = 0 THEN Absent
     ELSE d

\* main() with --clean-empty.
CleanEmpty ==
  /\ run.cmd = "none"
  /\ cache' = [k \in Keys |-> cleanedDir(cache[k])]
  /\ lastCall' = [k \in DOMAIN lastCall |->
                    IF cleanedDir(cache[k]) # cache[k] THEN NoCall ELSE lastCall[k]]
  /\ UNCHANGED <<variant, mock, task, run>>

\* main() with --clean: fs.rm(OUTPUT_DIR, {recursive: true, force: true}).
CleanAll ==
  /\ run.cmd = "none"
  /\ cache' = [k \in Keys |-> Absent]
  /\ lastCall' = [k \in DOMAIN lastCall |-> NoCall]
  /\ UNCHANGED <<variant, mock, task, run>>

\* The command flags of an invocation without --range and without --all.
CommandFlags == SUBSET {"clean", "cleanEmpty", "analyze", "downloadMissing", "download"}

\* main() with the command flags `flags`, without --range and without --all:
\* the first branch of the if chain whose flag is set runs; a command that
\* needs a range prints the usage and calls process.exit(1).
Main(flags) ==
  /\ run.cmd = "none"
  /\ LET cmd == IF "clean" \in flags THEN "clean"
                ELSE IF "cleanEmpty" \in flags THEN "cleanEmpty"
                ELSE IF flags # {} THEN "usage"
                ELSE "help"
         after == [k \in Keys |->
                     CASE cmd = "clean" -> Absent
                       [] cmd = "cleanEmpty" -> cleanedDir(cache[k])
                       [] OTHER -> cache[k]]
     IN /\ run' = [IdleRun EXCEPT !.cmd = cmd, !.pc = "done", !.flags = flags,
                                  !.exit = IF cmd = "usage" THEN 1 ELSE 0]
        /\ cache' = after
        /\ lastCall' = [k \in DOMAIN lastCall |->
                          IF after[k] # cache[k] THEN NoCall ELSE lastCall[k]]
  /\ UNCHANGED <<variant, mock, task>>

\* ------------------------------------------------------------------ scheduling
\* A fresh downloadPokemonCards(k, options) call of the running command; for
\* a key whose calls are observed, pre keeps the directory as the call found it.
newTask(k) ==
  [IdleTask EXCEPT !.pc = "begin", !.limit = run.limit, !.force = run.force,
                   !.github = run.useGithub,
                   !.pre = IF k \in DOMAIN lastCall THEN cache[k] ELSE Absent]

\* Mutant of LaunchNext: the loop does not await the delay between two keys.
LaunchNextWithoutDelay ==
  /\ run.pc = "loop"
  /\ run.concurrent <= 1
  /\ inFlight = {}
  /\ run.next <= Len(run.list)
  /\ task' = [task EXCEPT ![run.list[run.next]] = newTask(run.list[run.next])]
  /\ run' = [run EXCEPT !.next = @ + 1, !.calls = Append(@, run.list[run.next]),
                        !.pause = FALSE]
  /\ UNCHANGED <<variant, mock, cache, lastCall>>

\* The sequential loop: the next key is called once the previous call settled
\* and the delay after it is over.
LaunchNext ==
  /\ run.pc = "loop"
  /\ run.concurrent <= 1
  /\ inFlight = {}
  /\ ~run.pause
  /\ run.next <= Len(run.list)
  /\ task' = [task EXCEPT ![run.list[run.next]] = newTask(run.list[run.next])]
  /\ run' = [run EXCEPT !.next = @ + 1, !.calls = Append(@, run.list[run.next])]
  /\ UNCHANGED <<variant, mock, cache, lastCall>>

\* list.slice(i, i + concurrent)
chunkAt(list, i, concurrent) ==
  SubSeq(list, i, Min(i + concurrent - 1, Len(list)))

\* The concurrent loop: chunk.map(...) calls every key of the next chunk, after
\* Promise.all of the previous chunk.
LaunchChunk ==
  /\ run.pc = "loop"
  /\ run.concurrent > 1
  /\ inFlight = {}
  /\ ~run.pause
  /\ run.next <= Len(run.list)
  /\ LET chunk == chunkAt(run.list, run.next, run.concurrent)
     IN /\ task' = [k \in Keys |->
                      IF k \in Range(chunk) THEN newTask(k) ELSE task[k]]
        /\ run' = [run EXCEPT !.next = @ + run.concurrent, !.calls = @ \o chunk]
  /\ UNCHANGED <<variant, mock, cache, lastCall>>

\* Mutant of account: a result without any card is counted as a failure.
accountZeroAsFailed(cmd, stats, res) ==
  IF res.threw \/ (~res.skipped /\ res.count = 0)
  THEN [stats EXCEPT !.failed = @ + 1]
  ELSE IF res.skipped
       THEN IF cmd = "download" THEN [stats EXCEPT !.skipped = @ + 1] ELSE stats
       ELSE [stats EXCEPT !.success = @ + 1, !.cardsDownloaded = @ + res.count]

\* The try/catch around the call: the counters the loop updates for a result.
account(cmd, stats, res) ==
  IF res.threw THEN [stats EXCEPT !.failed = @ + 1]
  ELSE IF res.skipped
       THEN IF cmd = "download" THEN [stats EXCEPT !.skipped = @ + 1] ELSE stats
       ELSE [stats EXCEPT !.success = @ + 1, !.cardsDownloaded = @ + res.count]

\* The call for k returns or throws res, leaving the directory as d.
settle(k, d, res) ==
  /\ cache' = [cache EXCEPT ![k] = d]
  /\ task' = [task EXCEPT ![k].pc = "returned", ![k].res = res]
  /\ UNCHANGED <<run, lastCall>>

\* Mutant of delayAfter: the concurrent loop also waits after its last chunk.
delayAfterEveryChunk(r, k, others) ==
  IF r.concurrent > 1 THEN others = {}
  ELSE IF r.cmd = "download" THEN k < r.end
  ELSE TRUE

\* Whether the loop awaits delay(options.delay || REQUEST_DELAY) once the
\* call for k is accounted for, `others` being the calls still in flight:
\*   concurrent       after Promise.all of a chunk that is not the last one
\*   downloadRange    if (pokedexNumber < end)
\*   downloadMissing  after every key
delayAfter(r, k, others) ==
  IF r.concurrent > 1 THEN others = {} /\ r.next <= Len(r.list)
  ELSE IF r.cmd = "download" THEN k < r.end
  ELSE TRUE

\* Mutant of Collect: the counters are updated from a copy read when the
\* chunk started, so that an update made while another call of the chunk is
\* still in flight is overwritten.
CollectLosingUpdate(k) ==
  /\ task[k].pc = "returned"
  /\ task' = [task EXCEPT ![k] = IdleTask]
  /\ run' = [run EXCEPT !.stats = IF inFlight \ {k} # {} THEN @
                                  ELSE account(run.cmd, @, task[k].res),
                        !.pause = delayAfter(run, k, inFlight \ {k})]
  /\ lastCall' = [j \in DOMAIN lastCall |->
                    IF j = k THEN task[k].res ELSE lastCall[j]]
  /\ UNCHANGED <<variant, mock, cache>>

\* The continuation of the loop after `await downloadPokemonCards(...)`.
Collect(k) ==
  /\ task[k].pc = "returned"
  /\ task' = [task EXCEPT ![k] = IdleTask]
  /\ run' = [run EXCEPT !.stats = account(run.cmd, @, task[k].res),
                        !.pause = delayAfter(run, k, inFlight \ {k})]
  /\ lastCall' = [j \in DOMAIN lastCall |->
                    IF j = k THEN task[k].res ELSE lastCall[j]]
  /\ UNCHANGED <<variant, mock, cache>>

returnSkipped(t, count) ==
  [NoCall EXCEPT !.valid = TRUE, !.force = t.force, !.skipped = TRUE,
                 !.count = count]

\* return {skipped: false, count: 0} after the .empty marker.
returnEmpty(t, net) ==
  [NoCall EXCEPT !.valid = TRUE, !.force = t.force, !.looked = TRUE,
                 !.net = net, !.wroteEmpty = TRUE]

\* throw error after the .empty marker.
throwError(t) ==
  [NoCall EXCEPT !.valid = TRUE, !.force = t.force, !.threw = TRUE,
                 !.looked = TRUE, !.net = TRUE, !.wroteEmpty = TRUE]

\* return {skipped: false, count: metadata.cards.length}.
returnCount(t) ==
  [NoCall EXCEPT !.valid = TRUE, !.force = t.force, !.count = Len(t.meta),
                 !.looked = TRUE, !.net = t.net, !.wroteMeta = TRUE]

\* Mutant of writeEmptyMarker: the directory is emptied before the marker is
\* written.
writeEmptyMarkerWiping(d, reason) ==
  [d EXCEPT !.empty = reason, !.png = [f \in Slots |-> NoFile]]

\* fs.writeFile(path.join(pokemonDir, '.empty'), reason)
writeEmptyMarker(d, reason) == [d EXCEPT !.empty = reason]

\* ------------------------------------------------------------------ downloadPokemonCards
\* Mutant of Begin: the call never skips.
BeginWithoutSkipTest(k) ==
  /\ task[k].pc = "begin"
  /\ cache' = [cache EXCEPT ![k] = mkdir(cache[k])]
  /\ task' = [task EXCEPT ![k].pc = "lookup"]
  /\ UNCHANGED <<variant, mock, run, lastCall>>

\* Mutant of Begin: the skip test looks at the image files only.
BeginSkippingOnImages(k) ==
  /\ task[k].pc = "begin"
  /\ LET d == mkdir(cache[k])
         existing == checkPokemonDownloaded(d)
     IN IF ~task[k].force /\ existing.exists
        THEN settle(k, d, returnSkipped(task[k], existing.count))
        ELSE /\ cache' = [cache EXCEPT ![k] = d]
             /\ task' = [task EXCEPT ![k].pc = "lookup"]
             /\ UNCHANGED <<run, lastCall>>
  /\ UNCHANGED <<variant, mock>>

\* mkdir, then the skip test of a call without --force.
Begin(k) ==
  /\ task[k].pc = "begin"
  /\ LET d == mkdir(cache[k])
         existing == checkPokemonDownloaded(d)
     IN IF ~task[k].force /\ existing.exists /\ existing.hasMetadata
        THEN settle(k, d, returnSkipped(task[k], existing.count))
        ELSE /\ cache' = [cache EXCEPT ![k] = d]
             /\ task' = [task EXCEPT ![k].pc = "lookup"]
             /\ UNCHANGED <<run, lastCall>>
  /\ UNCHANGED <<variant, mock>>

\* The bulk branch: cardsByPokedex.get(k) is allCards.
LookupGithub(k, allCards) ==
  /\ task[k].pc = "lookup"
  /\ task[k].github
  /\ IF Len(allCards) = 0
     THEN settle(k, writeEmptyMarker(cache[k], NoCardsInGithub),
                 returnEmpty(task[k], FALSE))
     ELSE /\ task' = [task EXCEPT ![k].pc = "image", ![k].i = 1,
                                  ![k].cards = diversifyCards(allCards, task[k].limit)]
          /\ UNCHANGED <<cache, run, lastCall>>
  /\ UNCHANGED <<variant, mock>>

\* The API branch, the request answering with the cards `data`.
LookupApi(k, data) ==
  /\ task[k].pc = "lookup"
  /\ ~task[k].github
  /\ LET cards == fetchPokemonCards(data, task[k].limit)
     IN IF Len(cards) = 0
        THEN settle(k, writeEmptyMarker(cache[k], NoCardsFound),
                    returnEmpty(task[k], TRUE))
        ELSE /\ task' = [task EXCEPT ![k].pc = "image", ![k].i = 1,
                                     ![k].cards = cards, ![k].net = TRUE]
             /\ UNCHANGED <<cache, run, lastCall>>
  /\ UNCHANGED <<variant, mock>>

\* Mutant of LookupFails: the catch block does not rethrow.
LookupFailsSwallowed(k) ==
  /\ task[k].pc = "lookup"
  /\ ~task[k].github
  /\ settle(k, writeEmptyMarker(cache[k], ApiFailed), returnEmpty(task[k], TRUE))
  /\ UNCHANGED <<variant, mock>>

\* The API branch, every attempt of retryWithBackoff failing.
LookupFails(k) ==
  /\ task[k].pc = "lookup"
  /\ ~task[k].github
  /\ settle(k, writeEmptyMarker(cache[k], ApiFailed), throwError(task[k]))
  /\ UNCHANGED <<variant, mock>>

ImageOutcomes == {"ok", "failed", "partial", "nourl"}

\* Mutant of Image: the download is not inside a try block, a failure ends
\* the call.
ImageAbortOnFailure(k, outcome) ==
  /\ task[k].pc = "image"
  /\ LET t == task[k]
         card == t.cards[t.i]
     IN IF outcome \in {"failed", "partial"}
        THEN settle(k, [cache[k] EXCEPT !.png[t.i] =
                          IF outcome = "partial" THEN Truncated ELSE @],
                    [throwError(t) EXCEPT !.wroteEmpty = FALSE])
        ELSE /\ cache' = [cache EXCEPT ![k].png[t.i] =
                            IF outcome = "ok" THEN card ELSE @]
             /\ task' = [task EXCEPT
                           ![k].meta = IF outcome = "ok"
                                       THEN Append(@, [filename |-> t.i, cardId |-> card])
                                       ELSE @,
                           ![k].net = IF outcome = "nourl" THEN @ ELSE TRUE,
                           ![k].wrote = IF outcome = "ok" THEN @ \cup {t.i} ELSE @,
                           ![k].i = @ + 1,
                           ![k].pc = IF t.i = Len(t.cards) THEN "meta" ELSE "image"]
             /\ UNCHANGED <<run, lastCall>>
  /\ UNCHANGED <<variant, mock>>

\* One round of the image loop: card i is downloaded to its ordinal file.
\*   ok      the image is written and recorded in metadata.cards
\*   failed  every attempt failed before the file was opened
\*   partial every attempt failed, one of them after createWriteStream
\*   nourl   the card has no image URL: continue
Image(k, outcome) ==
  /\ task[k].pc = "image"
  /\ LET t == task[k]
         card == t.cards[t.i]
     IN /\ cache' = [cache EXCEPT ![k].png[t.i] =
                       CASE outcome = "ok" -> card
                         [] outcome = "partial" -> Truncated
                         [] OTHER -> @]
        /\ task' = [task EXCEPT
                      ![k].meta = IF outcome = "ok"
                                  THEN Append(@, [filename |-> t.i, cardId |-> card])
                                  ELSE @,
                      ![k].net = IF outcome = "nourl" THEN @ ELSE TRUE,
                      ![k].wrote = IF outcome \in {"ok", "partial"}
                                   THEN @ \cup {t.i} ELSE @,
                      ![k].i = @ + 1,
                      ![k].pc = IF t.i = Len(t.cards) THEN "meta" ELSE "image"]
  /\ UNCHANGED <<variant, mock, run, lastCall>>

\* fs.writeFile(metadata.json) and the return of the count.
WriteMetadata(k) ==
  /\ task[k].pc = "meta"
  /\ settle(k, [cache[k] EXCEPT !.hasMeta = TRUE, !.torn = FALSE,
                                !.cards = task[k].meta],
            returnCount(task[k]))
  /\ UNCHANGED <<variant, mock>>

\* fs.writeFile(metadata.json) followed through the file system: the file is
\* opened with flag 'w', which creates it or truncates it to length zero ...
OpenMetadata(k) ==
  /\ task[k].pc = "meta"
  /\ cache' = [cache EXCEPT ![k].hasMeta = TRUE, ![k].torn = TRUE,
                            ![k].cards = <<>>]
  /\ task' = [task EXCEPT ![k].pc = "metawrite"]
  /\ UNCHANGED <<variant, mock, run, lastCall>>

\* ... and the JSON text is then written into it; the call returns the count.
FlushMetadata(k) ==
  /\ task[k].pc = "metawrite"
  /\ settle(k, [cache[k] EXCEPT !.torn = FALSE, !.cards = task[k].meta],
            returnCount(task[k]))
  /\ UNCHANGED <<variant, mock>>

\* ------------------------------------------------------------------ retryWithBackoff
\* Mutant of backoffDelay: the delay does not grow.
backoffDelayFixed(attempt) == RETRY_DELAY

\* const delayMs = CONFIG.RETRY_DELAY * Math.pow(2, attempt - 1)
backoffDelay(attempt) == RETRY_DELAY * 2^(attempt - 1)

\* The retryWithBackoff invocation of the call t at a site: the one in
\* progress, or a new one.
currentRetry(t, site) ==
  IF t.retry.site = site /\ t.retry.done = "no" THEN t.retry
  ELSE [NoRetry EXCEPT !.site = site]

\* catch (error) of retryWithBackoff after the attempt numbered `attempt`:
\* rethrow at the last attempt, otherwise await the delay.
retryCatch(r, attempt, error) ==
  IF attempt = RETRY_ATTEMPTS
  THEN [r EXCEPT !.errors = Append(@, error), !.pending = FALSE,
                 !.done = "threw", !.thrown = error]
  ELSE [r EXCEPT !.errors = Append(@, error), !.pending = FALSE,
                 !.waiting = TRUE, !.waits = Append(@, backoffDelay(attempt))]

\* What the Remote API can answer to httpsGet: HTTP 200 with a JSON body,
\* HTTP 200 with a body that is not JSON, another status, a network error.
Responses == {"json", "malformed", "http", "network"}

\* fn() of the fetch: httpsGet sends the request and the response arrives.
FetchRequest(k, response) ==
  /\ task[k].pc = "lookup"
  /\ ~task[k].github
  /\ LET r == currentRetry(task[k], "fetch")
     IN /\ ~r.pending
        /\ ~r.waiting
        /\ task' = [task EXCEPT ![k].net = TRUE,
                                ![k].retry = [r EXCEPT !.calls = @ + 1,
                                                       !.response = response,
                                                       !.pending = TRUE]]
  /\ UNCHANGED <<variant, mock, cache, run, lastCall>>

\* res.on('end') with status 200 and a JSON body whose data is `data`:
\* httpsGet resolves, retryWithBackoff returns, the cards are chosen.
FetchResolve(k, data) ==
  /\ task[k].pc = "lookup"
  /\ task[k].retry.pending
  /\ task[k].retry.response = "json"
  /\ LET r == [task[k].retry EXCEPT !.pending = FALSE, !.done = "returned"]
         cards == fetchPokemonCards(data, task[k].limit)
     IN IF Len(cards) = 0
        THEN /\ cache' = [cache EXCEPT ![k] = writeEmptyMarker(@, NoCardsFound)]
             /\ task' = [task EXCEPT ![k].pc = "returned", ![k].retry = r,
                                     ![k].res = returnEmpty(task[k], TRUE)]
        ELSE /\ task' = [task EXCEPT ![k].pc = "image", ![k].i = 1,
                                     ![k].cards = cards, ![k].retry = r]
             /\ UNCHANGED cache
  /\ UNCHANGED <<variant, mock, run, lastCall>>

\* res.on('end') with another status, or the request's 'error' event:
\* httpsGet rejects; retryWithBackoff waits or, at the last attempt, rethrows
\* and the call writes .empty and throws.
FetchReject(k) ==
  /\ task[k].pc = "lookup"
  /\ task[k].retry.pending
  /\ task[k].retry.response \in {"http", "network"}
  /\ LET r == retryCatch(task[k].retry, task[k].retry.calls, task[k].retry.response)
     IN IF r.done = "threw"
        THEN /\ cache' = [cache EXCEPT ![k] = writeEmptyMarker(@, ApiFailed)]
             /\ task' = [task EXCEPT ![k].pc = "returned", ![k].retry = r,
                                     ![k].res = throwError(task[k])]
        ELSE /\ task' = [task EXCEPT ![k].retry = r]
             /\ UNCHANGED cache
  /\ UNCHANGED <<variant, mock, run, lastCall>>

\* res.on('end') with status 200 and a body that is not JSON: JSON.parse
\* throws inside the event listener, outside any promise; nothing catches the
\* exception and the process ends.
FetchParseThrows(k) ==
  /\ task[k].pc = "lookup"
  /\ task[k].retry.pending
  /\ task[k].retry.response = "malformed"
  /\ run' = IdleRun
  /\ task' = [j \in Keys |-> IdleTask]
  /\ lastCall' = [j \in DOMAIN lastCall |->
                    IF j \in inFlight THEN NoCall ELSE lastCall[j]]
  /\ UNCHANGED <<variant, mock, cache>>

\* The same at the level of one lookup step: one of the attempts of the
\* fetch for k is answered with status 200 and a body that is not JSON.
LookupParseThrows(k) ==
  /\ task[k].pc = "lookup"
  /\ ~task[k].github
  /\ run' = IdleRun
  /\ task' = [j \in Keys |-> IdleTask]
  /\ lastCall' = [j \in DOMAIN lastCall |->
                    IF j \in inFlight THEN NoCall ELSE lastCall[j]]
  /\ UNCHANGED <<variant, mock, cache>>

\* A file system call of downloadPokemonCards rejects (fs.mkdir, the
\* fs.writeFile of .empty or of metadata.json): the call throws there.
WriteFails(k) ==
  /\ task[k].pc \in {"begin", "lookup", "meta"}
  /\ settle(k, cache[k],
            [NoCall EXCEPT !.valid = TRUE, !.force = task[k].force, !.threw = TRUE,
                           !.looked = task[k].pc # "begin",
                           !.net = task[k].net \/ (task[k].pc = "lookup" /\ ~task[k].github)])
  /\ UNCHANGED <<variant, mock>>

\* await delay(delayMs) is over.
Backoff(k) ==
  /\ task[k].retry.waiting
  /\ task' = [task EXCEPT ![k].retry.waiting = FALSE]
  /\ UNCHANGED <<variant, mock, cache, run, lastCall>>

\* One round of the image loop at the level of retryWithBackoff: a card
\* without URL is passed over; otherwise fn() is one downloadImage attempt.
ImageAttempt(k, outcome) ==
  /\ task[k].pc = "image"
  /\ LET t == task[k]
         card == t.cards[t.i]
         r == currentRetry(t, "image")
         attempt == r.calls + 1
         tried == [r EXCEPT !.calls = attempt]
         after == CASE outcome = "nourl" -> t.retry
                    [] outcome = "ok" -> [tried EXCEPT !.done = "returned"]
                    [] OTHER -> retryCatch(tried, attempt, "download")
         over == outcome = "nourl" \/ after.done # "no"
     IN /\ ~r.waiting
        /\ outcome = "nourl" => r.calls = 0
        /\ cache' = [cache EXCEPT ![k].png[t.i] =
                       CASE outcome = "ok" -> card
                         [] outcome = "partial" -> Truncated
                         [] OTHER -> @]
        /\ task' = [task EXCEPT
                      ![k].retry = after,
                      ![k].meta = IF outcome = "ok"
                                  THEN Append(@, [filename |-> t.i, cardId |-> card])
                                  ELSE @,
                      ![k].net = IF outcome = "nourl" THEN @ ELSE TRUE,
                      ![k].wrote = IF outcome \in {"ok", "partial"}
                                   THEN @ \cup {t.i} ELSE @,
                      ![k].i = IF over THEN @ + 1 ELSE @,
                      ![k].pc = IF over /\ t.i = Len(t.cards) THEN "meta" ELSE "image"]
  /\ UNCHANGED <<variant, mock, run, lastCall>>

\* ------------------------------------------------------------------ end of a command
\* The delay between two keys or two chunks is over.
Delay ==
  /\ run.pc = "loop"
  /\ run.pause
  /\ run' = [run EXCEPT !.pause = FALSE, !.delays = @ + 1]
  /\ UNCHANGED <<variant, mock, cache, task, lastCall>>

\* Both loops are over: the summary is printed, loadMetadata() and
\* saveMetadata() rewrite the global metadata file.
Finish ==
  /\ run.pc = "loop"
  /\ inFlight = {}
  /\ ~run.pause
  /\ run.next > Len(run.list)
  /\ run' = [run EXCEPT !.pc = "done", !.saved = TRUE]
  /\ UNCHANGED <<variant, mock, cache, task, lastCall>>

\* main() returns and the process exits.
Exit ==
  /\ run.pc = "done"
  /\ run' = IdleRun
  /\ UNCHANGED <<variant, mock, cache, task, lastCall>>

\* The process is killed while a call is in progress.
Interrupt ==
  /\ run.pc = "loop"
  /\ \E k \in Keys : task[k].pc \notin {"idle", "returned"}
  /\ run' = IdleRun
  /\ task' = [k \in Keys |-> IdleTask]
  /\ lastCall' = [k \in DOMAIN lastCall |->
                    IF k \in inFlight THEN NoCall ELSE lastCall[k]]
  /\ UNCHANGED <<variant, mock, cache>>

\* ------------------------------------------------------------------ specifications
\* The data sources' catalogue of n cards, newest first: a lookup answers
\* with any sub-list of it.
Catalogue(n) == {SeqFilter([i \in 1..n |-> i], S) : S \in SUBSET (1..n)}

\* Largest --concurrent value.
MaxConcurrent == 2

\* Batch runs over the keys 1..MaxKey; every key has at most one card and
\* the limit is 1.
Init ==
  /\ mock = NoMock
  /\ variant \in {1, 2}
  /\ cache = [k \in 1..MaxKey |-> Absent]
  /\ task = [k \in 1..MaxKey |-> IdleTask]
  /\ run = IdleRun
  /\ lastCall = <<>>

Next ==
  \/ \E start \in Keys, end \in Keys : Analyze(start, end)
  \/ \E start \in Keys, end \in Keys :
       \E o \in Options(variant, {1}, 1..MaxConcurrent) : DownloadRange(start, end, o)
  \/ \E start \in Keys, end \in Keys :
       \E o \in Options(variant, {1}, 1..MaxConcurrent) : DownloadMissing(start, end, o)
  \/ CleanEmpty
  \/ CleanAll
  \/ LaunchNext
  \/ LaunchChunk
  \/ \E k \in Keys : Begin(k)
  \/ \E k \in Keys : \E allCards \in Catalogue(1) : LookupGithub(k, allCards)
  \/ \E k \in Keys : \E data \in Catalogue(1) : LookupApi(k, data)
  \/ \E k \in Keys : LookupFails(k)
  \/ \E k \in Keys : \E outcome \in {"ok", "failed"} : Image(k, outcome)
  \/ \E k \in Keys : WriteMetadata(k)
  \/ \E k \in Keys : Collect(k)
  \/ Delay
  \/ Finish
  \/ Exit
  \/ Interrupt

Spec == Init /\ [][Next]_vars

\* Repeated --download --range 1-1 runs of the second variant on one key, with
\* every limit, both data sources and the whole catalogue; the result of the
\* latest completed call is kept in lastCall.
InitKey ==
  /\ mock = NoMock
  /\ variant = 2
  /\ cache = [k \in {1} |-> Absent]
  /\ task = [k \in {1} |-> IdleTask]
  /\ run = IdleRun
  /\ lastCall = [k \in {1} |-> NoCall]

NextKey ==
  \/ \E o \in Options(variant, 1..MaxLimit, {1}) : DownloadRange(1, 1, o)
  \/ LaunchNext
  \/ \E k \in Keys : Begin(k)
  \/ \E k \in Keys : \E allCards \in Catalogue(NumCards) : LookupGithub(k, allCards)
  \/ \E k \in Keys : \E data \in Catalogue(NumCards) : LookupApi(k, data)
  \/ \E k \in Keys : LookupFails(k)
  \/ \E k \in Keys : \E outcome \in ImageOutcomes : Image(k, outcome)
  \/ \E k \in Keys : WriteMetadata(k)
  \/ \E k \in Keys : Collect(k)
  \/ Finish
  \/ Exit
  \/ Interrupt

SpecKey == InitKey /\ [][NextKey]_vars

\* Repeated --download --range 1-1 runs of the second variant on one key with
\* one card, in which the write of metadata.json is followed through the file
\* system and the process can be killed at every step.
NextWrite ==
  \/ \E o \in Options(variant, {1}, {1}) : DownloadRange(1, 1, o)
  \/ LaunchNext
  \/ \E k \in Keys : Begin(k)
  \/ \E k \in Keys : \E allCards \in Catalogue(1) : LookupGithub(k, allCards)
  \/ \E k \in Keys : \E data \in Catalogue(1) : LookupApi(k, data)
  \/ \E k \in Keys : LookupFails(k)
  \/ \E k \in Keys : \E outcome \in ImageOutcomes : Image(k, outcome)
  \/ \E k \in Keys : OpenMetadata(k)
  \/ \E k \in Keys : FlushMetadata(k)
  \/ \E k \in Keys : Collect(k)
  \/ Finish
  \/ Exit
  \/ Interrupt

SpecWrite == InitKey /\ [][NextWrite]_vars

\* The options of a command given without --force.
Unforced == {o \in Options(variant, {1}, 1..MaxConcurrent) : ~o.force}

\* Batch runs without --force over the keys 1..MaxKey, --analyze and
\* --clean-empty in any order; images can fail in every way and the process
\* can be killed.
NextUnforced ==
  \/ \E start \in Keys, end \in Keys : Analyze(start, end)
  \/ \E start \in Keys, end \in Keys : \E o \in Unforced : DownloadRange(start, end, o)
  \/ \E start \in Keys, end \in Keys : \E o \in Unforced : DownloadMissing(start, end, o)
  \/ CleanEmpty
  \/ LaunchNext
  \/ LaunchChunk
  \/ \E k \in Keys : Begin(k)
  \/ \E k \in Keys : \E allCards \in Catalogue(1) : LookupGithub(k, allCards)
  \/ \E k \in Keys : \E data \in Catalogue(1) : LookupApi(k, data)
  \/ \E k \in Keys : LookupFails(k)
  \/ \E k \in Keys : \E outcome \in ImageOutcomes : Image(k, outcome)
  \/ \E k \in Keys : WriteMetadata(k)
  \/ \E k \in Keys : Collect(k)
  \/ Delay
  \/ Finish
  \/ Exit
  \/ Interrupt

SpecUnforced == Init /\ [][NextUnforced]_vars

\* The directories earlier runs can have left for a key: none, or one with or
\* without 01.png, metadata.json and .empty.
LeftBehind ==
  {Absent} \cup
  {[Absent EXCEPT !.dir = TRUE, !.png[1] = img, !.hasMeta = meta,
                  !.cards = IF meta /\ img # NoFile
                            THEN <<[filename |-> 1, cardId |-> img]>> ELSE <<>>,
                  !.empty = marker] :
     img \in {NoFile, 1}, meta \in BOOLEAN, marker \in {NoMarker, NoCardsFound}}

\* --clean-empty, then one --download-missing run without --force, on a cache
\* earlier runs left in any state; mock.init remembers that cache.
InitClean ==
  /\ variant \in {1, 2}
  /\ cache \in [1..MaxKey -> LeftBehind]
  /\ mock = [NoMock EXCEPT !.init = cache]
  /\ task = [k \in 1..MaxKey |-> IdleTask]
  /\ run = IdleRun
  /\ lastCall = <<>>

NextClean ==
  \/ CleanEmpty
  \/ \E start \in Keys, end \in Keys : \E o \in Unforced : DownloadMissing(start, end, o)
  \/ LaunchNext
  \/ LaunchChunk
  \/ \E k \in Keys : Begin(k)
  \/ \E k \in Keys : \E allCards \in Catalogue(1) : LookupGithub(k, allCards)
  \/ \E k \in Keys : \E data \in Catalogue(1) : LookupApi(k, data)
  \/ \E k \in Keys : LookupFails(k)
  \/ \E k \in Keys : \E outcome \in {"ok", "failed"} : Image(k, outcome)
  \/ \E k \in Keys : WriteMetadata(k)
  \/ \E k \in Keys : Collect(k)
  \/ Delay
  \/ Finish

SpecClean == InitClean /\ [][NextClean]_vars

\* ------------------------------------------------------------------ fetch runs
\* Repeated --download --range 1-1 runs of the second variant on one key in
\* which every retryWithBackoff invocation is followed attempt by attempt.
NextFetch ==
  \/ \E o \in Options(variant, 1..MaxLimit, {1}) : DownloadRange(1, 1, o)
  \/ LaunchNext
  \/ \E k \in Keys : Begin(k)
  \/ \E k \in Keys : \E allCards \in Catalogue(NumCards) : LookupGithub(k, allCards)
  \/ \E k \in Keys : \E response \in Responses : FetchRequest(k, response)
  \/ \E k \in Keys : \E data \in Catalogue(NumCards) : FetchResolve(k, data)
  \/ \E k \in Keys : FetchReject(k)
  \/ \E k \in Keys : FetchParseThrows(k)
  \/ \E k \in Keys : Backoff(k)
  \/ \E k \in Keys : \E outcome \in ImageOutcomes : ImageAttempt(k, outcome)
  \/ \E k \in Keys : WriteMetadata(k)
  \/ \E k \in Keys : Collect(k)
  \/ Finish
  \/ Exit

SpecFetch == InitKey /\ [][NextFetch]_vars

\* ------------------------------------------------------------------ unanswered requests
\* What can happen to a request of httpsGet: one of the Responses, or no
\* answer at all (the remote end accepts the connection and stays silent, or
\* stalls in the middle of the body). https.get is called without a timeout
\* and the request object gets no 'timeout' listener.
Outcomes == Responses \cup {"silent"}

\* Repeated --download --range 1-1 --limit 1 runs of the second variant on one
\* key, every request followed to its answer. Every step that is enabled
\* is eventually taken: the answer that is on its way arrives, a timer that
\* was set fires, a continuation that is ready runs.
NextHang ==
  \/ \E o \in Options(variant, {1}, {1}) : DownloadRange(1, 1, o)
  \/ LaunchNext
  \/ \E k \in Keys : Begin(k)
  \/ \E k \in Keys : \E allCards \in Catalogue(1) : LookupGithub(k, allCards)
  \/ \E k \in Keys : \E response \in Outcomes : FetchRequest(k, response)
  \/ \E k \in Keys : \E data \in Catalogue(1) : FetchResolve(k, data)
  \/ \E k \in Keys : FetchReject(k)
  \/ \E k \in Keys : FetchParseThrows(k)
  \/ \E k \in Keys : Backoff(k)
  \/ \E k \in Keys : \E outcome \in {"ok", "failed"} : ImageAttempt(k, outcome)
  \/ \E k \in Keys : WriteMetadata(k)
  \/ \E k \in Keys : Collect(k)
  \/ Finish
  \/ Exit

SpecHang == InitKey /\ [][NextHang]_vars /\ WF_vars(NextHang)

\* ------------------------------------------------------------------ range runs
\* --download runs over the keys 1..MaxKey, sequential and concurrent, in
\* which any call can fail: at the fetch, at an image, at a file system write.
NextRange ==
  \/ \E start \in Keys, end \in Keys :
       \E o \in Options(variant, {1}, 1..MaxConcurrent) : DownloadRange(start, end, o)
  \/ LaunchNext
  \/ LaunchChunk
  \/ \E k \in Keys : Begin(k)
  \/ \E k \in Keys : \E allCards \in Catalogue(1) : LookupGithub(k, allCards)
  \/ \E k \in Keys : \E data \in Catalogue(1) : LookupApi(k, data)
  \/ \E k \in Keys : LookupFails(k)
  \/ \E k \in Keys : LookupParseThrows(k)
  \/ \E k \in Keys : \E outcome \in {"ok", "failed"} : Image(k, outcome)
  \/ \E k \in Keys : WriteMetadata(k)
  \/ \E k \in Keys : WriteFails(k)
  \/ \E k \in Keys : Collect(k)
  \/ Delay
  \/ Finish
  \/ Exit

SpecRange == Init /\ [][NextRange]_vars

\* A directory an earlier run completed with one card.
Stocked ==
  [Absent EXCEPT !.dir = TRUE, !.png[1] = 1, !.hasMeta = TRUE,
                 !.cards = <<[filename |-> 1, cardId |-> 1]>>]

\* One --download run of the second variant that reaches its summary, on a
\* cache in which any key can be complete, with the result of every key's
\* call kept in lastCall.
InitStats ==
  /\ mock = NoMock
  /\ variant = 2
  /\ cache \in [1..MaxKey -> {Absent, Stocked}]
  /\ task = [k \in 1..MaxKey |-> IdleTask]
  /\ run = IdleRun
  /\ lastCall = [k \in 1..MaxKey |-> NoCall]

NextStats ==
  \/ \E start \in Keys, end \in Keys :
       \E o \in Options(variant, {1}, 1..MaxConcurrent) : DownloadRange(start, end, o)
  \/ LaunchNext
  \/ LaunchChunk
  \/ \E k \in Keys : Begin(k)
  \/ \E k \in Keys : \E allCards \in Catalogue(1) : LookupGithub(k, allCards)
  \/ \E k \in Keys : \E data \in Catalogue(1) : LookupApi(k, data)
  \/ \E k \in Keys : LookupFails(k)
  \/ \E k \in Keys : \E outcome \in {"ok", "failed"} : Image(k, outcome)
  \/ \E k \in Keys : WriteMetadata(k)
  \/ \E k \in Keys : WriteFails(k)
  \/ \E k \in Keys : Collect(k)
  \/ Delay
  \/ Finish

SpecStats == InitStats /\ [][NextStats]_vars

\* ------------------------------------------------------------------ invocations
\* Invocations of main() with and without a range, each followed to the end
\* of the process; calls can fail at the fetch and at an image.
NextMain ==
  \/ \E flags \in CommandFlags : Main(flags)
  \/ \E start \in Keys, end \in Keys : Analyze(start, end)
  \/ \E start \in Keys, end \in Keys :
       \E o \in Options(variant, {1}, 1..MaxConcurrent) : DownloadRange(start, end, o)
  \/ \E start \in Keys, end \in Keys :
       \E o \in Options(variant, {1}, 1..MaxConcurrent) : DownloadMissing(start, end, o)
  \/ LaunchNext
  \/ LaunchChunk
  \/ \E k \in Keys : Begin(k)
  \/ \E k \in Keys : \E allCards \in Catalogue(1) : LookupGithub(k, allCards)
  \/ \E k \in Keys : \E data \in Catalogue(1) : LookupApi(k, data)
  \/ \E k \in Keys : LookupFails(k)
  \/ \E k \in Keys : LookupParseThrows(k)
  \/ \E k \in Keys : \E outcome \in {"ok", "failed"} : Image(k, outcome)
  \/ \E k \in Keys : WriteMetadata(k)
  \/ \E k \in Keys : Collect(k)
  \/ Delay
  \/ Finish
  \/ Exit

SpecMain == Init /\ [][NextMain]_vars

\* ------------------------------------------------------------------ chunked runs
\* Largest Pokedex number and largest --concurrent of the chunked runs.
ChunkKeys == 5
MaxChunk == 3

\* One concurrent --download or --download-missing run of the second variant,
\* without --force and --retry-failed, over the keys 1..end, on a cache in
\* which at most one key is complete.
InitChunk ==
  /\ mock = NoMock
  /\ variant = 2
  /\ cache \in {c \in [1..ChunkKeys -> {Absent, Stocked}] :
                  Cardinality({k \in 1..ChunkKeys : c[k] = Stocked}) <= 1}
  /\ task = [k \in 1..ChunkKeys |-> IdleTask]
  /\ run = IdleRun
  /\ lastCall = <<>>

ChunkOptions ==
  {o \in Options(2, {1}, 2..MaxChunk) : ~o.force /\ ~o.retryFailed}

NextChunk ==
  \/ \E end \in Keys : \E o \in ChunkOptions : DownloadRange(1, end, o)
  \/ \E end \in Keys : \E o \in ChunkOptions : DownloadMissing(1, end, o)
  \/ LaunchChunk
  \/ \E k \in Keys : Begin(k)
  \/ \E k \in Keys : \E allCards \in Catalogue(1) : LookupGithub(k, allCards)
  \/ \E k \in Keys : \E data \in Catalogue(1) : LookupApi(k, data)
  \/ \E k \in Keys : LookupFails(k)
  \/ \E k \in Keys : \E outcome \in {"ok", "failed"} : Image(k, outcome)
  \/ \E k \in Keys : WriteMetadata(k)
  \/ \E k \in Keys : Collect(k)
  \/ Delay
  \/ Finish

SpecChunk == InitChunk /\ [][NextChunk]_vars

\* ------------------------------------------------------------------ mocked runs
\* The --concurrent value of the second run of the comparison.
MockConcurrent == 4

\* What a mocked data source holds for one key: the answer to the lookup (a
\* card list; for the API also a rejected request or a body that is not
\* JSON) and how the download of the key's image ends.
MockAnswers(github) ==
  {a \in [kind : IF github THEN {"cards"} ELSE {"cards", "rejects", "malformed"},
          cards : Catalogue(1), image : {"ok", "failed"}] :
     (a.kind # "cards" \/ a.cards = <<>>) => (a.cards = <<>> /\ a.image = "ok")}

MockOptions == {o \in Options(2, {1}, {1}) : ~o.retryFailed}

\* The comparison of the specification's concurrency test: --download --range
\* 1-MaxKey runs first sequentially, then, on a copy of the same initial
\* cache and with the same options and data source, with --concurrent
\* MockConcurrent. The first run is at the head of its loop.
InitMock ==
  /\ variant = 2
  /\ task = [k \in 1..MaxKey |-> IdleTask]
  /\ lastCall = <<>>
  /\ \E o \in MockOptions, c \in [1..MaxKey -> {Absent, Stocked}] :
       \E a \in [1..MaxKey -> MockAnswers(o.useGithub)] :
         /\ cache = c
         /\ run = rangeRun(1, MaxKey, o)
         /\ mock = [stage |-> 1, adapter |-> a, init |-> c, options |-> o,
                    first |-> c]

\* The first run is over, by its summary or by the end of the process: its
\* cache is kept aside, the initial cache is restored and the second run
\* starts.
Replay ==
  /\ mock.stage = 1
  /\ run.pc \in {"done", "idle"}
  /\ mock' = [mock EXCEPT !.stage = 2, !.first = cache]
  /\ cache' = mock.init
  /\ run' = rangeRun(1, MaxKey, [mock.options EXCEPT !.concurrent = MockConcurrent])
  /\ UNCHANGED <<variant, task, lastCall>>

\* The lookup of the call for k, answered by the mocked data source.
MockLookup(k) ==
  LET a == mock.adapter[k]
  IN IF task[k].github THEN LookupGithub(k, a.cards)
     ELSE CASE a.kind = "cards" -> LookupApi(k, a.cards)
            [] a.kind = "rejects" -> LookupFails(k)
            [] a.kind = "malformed" -> LookupParseThrows(k)

\* One round of the image loop, the download ending as the mock decides.
MockImage(k) == Image(k, mock.adapter[k].image)

NextMock ==
  \/ LaunchNext
  \/ LaunchChunk
  \/ \E k \in Keys : Begin(k)
  \/ \E k \in Keys : MockLookup(k)
  \/ \E k \in Keys : MockImage(k)
  \/ \E k \in Keys : WriteMetadata(k)
  \/ \E k \in Keys : Collect(k)
  \/ Delay
  \/ Finish
  \/ Replay

SpecMock == InitMock /\ [][NextMock]_vars

\* ------------------------------------------------------------------ bulk runs
\* One --download --range 1-MaxKey --use-github run of the second variant on
\* an empty cache, sequential or concurrent, with every --limit parseArgs
\* accepts up to MaxLimit; mock.adapter[k].cards is cardsByPokedex.get(k) and
\* every image download succeeds. The run is at the head of its loop.
InitBulk ==
  /\ variant = 2
  /\ cache = [k \in 1..MaxKey |-> Absent]
  /\ task = [k \in 1..MaxKey |-> IdleTask]
  /\ lastCall = <<>>
  /\ \E o \in Options(2, 0..MaxLimit, 1..MaxConcurrent) :
       \E a \in [1..MaxKey -> [kind : {"cards"}, cards : Catalogue(NumCards),
                               image : {"ok"}]] :
         /\ o.useGithub
         /\ run = rangeRun(1, MaxKey, o)
         /\ mock = [NoMock EXCEPT !.adapter = a]

NextBulk ==
  \/ LaunchNext
  \/ LaunchChunk
  \/ \E k \in Keys : Begin(k)
  \/ \E k \in Keys : MockLookup(k)
  \/ \E k \in Keys : MockImage(k)
  \/ \E k \in Keys : WriteMetadata(k)
  \/ \E k \in Keys : Collect(k)
  \/ Delay
  \/ Finish

SpecBulk == InitBulk /\ [][NextBulk]_vars

\* ------------------------------------------------------------------ selection runs
\* Number of distinct cards of the selection specification: cards 1,2 are of
\* set 1, cards 3,4 of set 2, card 5 of set 3.
SelCards == 5
\* Longest candidate list of the selection specification.
SelLen == 4
\* Largest --limit of the selection specification; --limit 0 is accepted by
\* parseArgs.
SelLimit == 3

\* Every candidate list a data source can hold for a key.
CandidateLists == UNION {[1..n -> 1..SelCards] : n \in 0..SelLen}

\* A --download --range 1-1 --limit l [--use-github] run of the second variant
\* whose call for key 1 is about to ask the data source; run.source is what
\* the source holds for the key (cardsByPokedex.get(1), or response.data).
InitSelect ==
  /\ mock = NoMock
  /\ variant = 2
  /\ cache = [k \in {1} |-> mkdir(Absent)]
  /\ lastCall = <<>>
  /\ \E l \in 0..SelLimit, g \in BOOLEAN, s \in CandidateLists :
       /\ run = [IdleRun EXCEPT !.cmd = "download", !.pc = "loop", !.start = 1,
                                !.end = 1, !.useGithub = g, !.limit = l,
                                !.list = <<1>>, !.next = 2, !.calls = <<1>>,
                                !.stats = [ZeroStats EXCEPT !.total = 1],
                                !.source = s]
       /\ task = [k \in {1} |->
                    [IdleTask EXCEPT !.pc = "lookup", !.limit = l, !.github = g]]

NextSelect ==
  \/ \E k \in Keys : LookupGithub(k, run.source)
  \/ \E k \in Keys : LookupApi(k, run.source)

SpecSelect == InitSelect /\ [][NextSelect]_vars

\* ------------------------------------------------------------------ vocabulary of the claims
\* The key has metadata.json and at least one image file.
Complete(d) == d.dir /\ d.hasMeta /\ pngFiles(d) # {}

\* The image files metadata.json lists.
listedFiles(d) == {d.cards[n].filename : n \in DOMAIN d.cards}

\* The call for k has returned or thrown and its caller has not resumed yet:
\* task[k].pre is the directory as the call found it, cache[k] as it left it.
Returned(k) == task[k].pc = "returned"

\* The call for k that just returned ran without --force right after another
\* completed call for k without --force.
SecondPlainCall(k) ==
  /\ Returned(k)
  /\ ~task[k].force
  /\ lastCall[k].valid
  /\ ~lastCall[k].force

\* ------------------------------------------------------------------ C1
\* C1 as stated: whatever the first of two consecutive calls without --force
\* did, the second does no network I/O and returns skipped=true with the
\* count of the first.
C1_AnyFirstOutcome ==
  \A k \in DOMAIN lastCall :
    SecondPlainCall(k) =>
      /\ task[k].res.skipped
      /\ ~task[k].res.net
      /\ task[k].res.count = lastCall[k].count

\* C1 amended: of two consecutive calls without --force, the second is skipped
\* without any lookup or network I/O exactly when the first left the key with
\* metadata.json and at least one image file; it then returns the number of
\* image files in the directory, which is the first call's count whenever the
\* directory holds exactly the image files metadata.json lists.  Otherwise the
\* second call is not skipped and asks the data source again.
C1_IdempotentOnceComplete ==
  \A k \in DOMAIN lastCall :
    SecondPlainCall(k) =>
      IF Complete(task[k].pre)
      THEN /\ task[k].res.skipped
           /\ ~task[k].res.looked
           /\ ~task[k].res.net
           /\ task[k].res.count = Cardinality(pngFiles(task[k].pre))
           /\ pngFiles(task[k].pre) = listedFiles(task[k].pre)
                => task[k].res.count = lastCall[k].count
      ELSE /\ ~task[k].res.skipped
           /\ task[k].res.looked

\* A second call was skipped after a first call that downloaded two images.
C1_Witness ==
  \E k \in DOMAIN lastCall :
    /\ SecondPlainCall(k)
    /\ ~lastCall[k].skipped
    /\ lastCall[k].count = 2
    /\ task[k].res.skipped
    /\ task[k].res.count = 2

\* ------------------------------------------------------------------ C2
\* C2: between calls, no key directory holds both metadata.json and .empty.
C2_MarkerExcludesMetadata ==
  \A k \in Keys :
    task[k].pc \in {"idle", "returned"} =>
      ~(cache[k].hasMeta /\ cache[k].empty # NoMarker)

\* ------------------------------------------------------------------ C3
\* C3: between calls, whenever metadata.json exists its cards list is as long
\* as the number of .png files in the directory.
C3_CardsMatchFiles ==
  \A k \in Keys :
    (task[k].pc \in {"idle", "returned"} /\ cache[k].hasMeta) =>
      Len(cache[k].cards) = Cardinality(pngFiles(cache[k]))

\* ------------------------------------------------------------------ C4
\* C4: a call without --force on a key with metadata.json and at least one
\* image returns {skipped: true, count: number of image files}, asks no data
\* source, downloads nothing and leaves the directory as it was.
C4_SkipRule ==
  \A k \in DOMAIN lastCall :
    (Returned(k) /\ ~task[k].force /\ Complete(task[k].pre)) =>
      /\ task[k].res.skipped
      /\ ~task[k].res.threw
      /\ task[k].res.count = Cardinality(pngFiles(task[k].pre))
      /\ ~task[k].res.looked
      /\ ~task[k].res.net
      /\ task[k].wrote = {}
      /\ cache[k] = task[k].pre

\* A call was skipped on a key whose directory holds two images, one of them
\* not listed in metadata.json.
C4_Witness ==
  \E k \in DOMAIN lastCall :
    /\ Returned(k)
    /\ ~task[k].force
    /\ Complete(task[k].pre)
    /\ task[k].res.skipped
    /\ task[k].res.count = 2
    /\ Len(cache[k].cards) = 1

\* ------------------------------------------------------------------ C5
\* C5: after a --force call on a complete key the directory holds only what
\* this call wrote: the image files, metadata.json and .empty it found are
\* gone unless the call wrote them again.
C5_ForceResets ==
  \A k \in DOMAIN lastCall :
    (Returned(k) /\ task[k].force /\ Complete(task[k].pre)) =>
      /\ pngFiles(cache[k]) = task[k].wrote
      /\ cache[k].hasMeta = task[k].res.wroteMeta
      /\ (cache[k].empty # NoMarker) = task[k].res.wroteEmpty

\* ------------------------------------------------------------------ C6
\* C6: a call that wrote the .empty marker (API failure, no card from the API,
\* no card in the bulk map) left the image files as it found them, set and
\* contents.
C6_EmptyMarkingKeepsImages ==
  \A k \in DOMAIN lastCall :
    (Returned(k) /\ task[k].res.wroteEmpty) =>
      /\ cache[k].empty # NoMarker
      /\ cache[k].png = task[k].pre.png
      /\ task[k].wrote = {}

\* A call wrote .empty for a key that had image files.
C6_Witness ==
  \E k \in DOMAIN lastCall :
    /\ Returned(k)
    /\ task[k].res.wroteEmpty
    /\ cache[k].empty = NoCardsInGithub
    /\ pngFiles(task[k].pre) = {1, 2}

\* ------------------------------------------------------------------ C7
\* The command in progress holds the analysis analyzeCache returned for its range.
HasAnalysis == run.cmd \in {"analyze", "downloadMissing"}

completeKeys(analysis) == {analysis.complete[n].num : n \in DOMAIN analysis.complete}

\* C7: the four lists analyzeCache returns are pairwise disjoint, no key is
\* twice in a list, their union is the range start..end, and total is the
\* number of keys of the range.
C7_AnalyzerPartition ==
  HasAnalysis =>
    LET a == run.analysis
        C == completeKeys(a)
        I == Range(a.incomplete)
        E == Range(a.empty)
        M == Range(a.missing)
        range == run.start..run.end
    IN /\ C \cap I = {} /\ C \cap E = {} /\ C \cap M = {}
       /\ I \cap E = {} /\ I \cap M = {} /\ E \cap M = {}
       /\ C \cup I \cup E \cup M = range
       /\ Len(a.complete) + Len(a.incomplete) + Len(a.empty) + Len(a.missing)
            = Cardinality(range)
       /\ a.total = Cardinality(range)
       /\ run.start <= run.end => a.total = run.end - run.start + 1

\* An analysis of the range 1..2 put one key in complete and the other in empty.
C7_Witness ==
  /\ run.cmd = "analyze"
  /\ run.start = 1
  /\ run.end = 2
  /\ Len(run.analysis.complete) = 1
  /\ Len(run.analysis.empty) = 1

\* ------------------------------------------------------------------ C8
\* The list the analysis put key k in.
classOf(analysis, k) ==
  CASE k \in completeKeys(analysis) -> "complete"
    [] k \in Range(analysis.incomplete) -> "incomplete"
    [] k \in Range(analysis.empty) -> "empty"
    [] k \in Range(analysis.missing) -> "missing"
    [] OTHER -> "none"

\* The priority rule of C8.
priorityRule(d) ==
  IF d.dir /\ d.hasMeta /\ pngFiles(d) # {} THEN "complete"
  ELSE IF d.dir /\ d.empty # NoMarker THEN "empty"
  ELSE IF d.dir THEN "incomplete"
  ELSE "missing"

\* C8 as stated, for the analyzeCache of the second variant: every key of an
\* analysed range is in the list the priority rule names.
C8_PriorityRule ==
  (run.cmd = "analyze" /\ variant = 2) =>
    \A k \in run.start..run.end :
      classOf(run.analysis, k) = priorityRule(cache[k])

\* C8 amended: the analyzeCache of the second variant puts a key with at least
\* one image file in complete when metadata.json is present and in incomplete
\* when it is not, whatever else the directory holds; a key without image
\* file in empty when .empty is present, and in missing otherwise (also when
\* its directory exists, with or without metadata.json).
C8_ImagesFirstRule ==
  (run.cmd = "analyze" /\ variant = 2) =>
    \A k \in run.start..run.end :
      classOf(run.analysis, k) =
        IF pngFiles(cache[k]) # {}
        THEN IF cache[k].hasMeta THEN "complete" ELSE "incomplete"
        ELSE IF cache[k].dir /\ cache[k].empty # NoMarker THEN "empty"
        ELSE "missing"

\* The second variant analysed a key with an image file, .empty and no
\* metadata.json as incomplete, and a key with an empty directory as missing.
C8_Witness ==
  /\ run.cmd = "analyze"
  /\ variant = 2
  /\ \E k \in run.start..run.end :
       /\ pngFiles(cache[k]) # {}
       /\ cache[k].empty # NoMarker
       /\ ~cache[k].hasMeta
       /\ classOf(run.analysis, k) = "incomplete"
  /\ \E k \in run.start..run.end :
       /\ cache[k] = mkdir(Absent)
       /\ classOf(run.analysis, k) = "missing"

\* ------------------------------------------------------------------ C9
\* C9: downloadMissing calls downloadPokemonCards in ascending key order, at
\* most once per key, only for keys the analysis put in incomplete or missing,
\* or in empty when retryFailed is set, never for a key it put in complete;
\* when the command is done it has called every such key.
C9_MissingTargets ==
  run.cmd = "downloadMissing" =>
    LET a == run.analysis
        target == Range(a.incomplete) \cup Range(a.missing)
                  \cup (IF run.retryFailed THEN Range(a.empty) ELSE {})
    IN /\ \A i, j \in DOMAIN run.calls : i < j => run.calls[i] < run.calls[j]
       /\ Range(run.calls) \subseteq target
       /\ Range(run.calls) \cap completeKeys(a) = {}
       /\ inFlight \subseteq Range(run.calls)
       /\ run.pc = "done" => Range(run.calls) = target

\* A downloadMissing run with retryFailed over 1..2 is done: it called key 1,
\* analysed incomplete, and key 2, analysed empty.
C9_Witness ==
  /\ run.cmd = "downloadMissing"
  /\ run.pc = "done"
  /\ run.retryFailed
  /\ run.analysis.incomplete = <<1>>
  /\ run.analysis.empty = <<2>>
  /\ run.calls = <<1, 2>>

\* ------------------------------------------------------------------ C10
\* C10: when downloadMissing has built its list, a key of the range whose
\* directory holds .empty and no image file is in the list exactly when
\* retryFailed is set.
C10_FailedKeysNeedRetryFlag ==
  (run.cmd = "downloadMissing" /\ run.next = 1 /\ inFlight = {}) =>
    \A k \in run.start..run.end :
      (cache[k].dir /\ cache[k].empty # NoMarker /\ pngFiles(cache[k]) = {}) =>
        (k \in Range(run.list) <=> run.retryFailed)

\* ------------------------------------------------------------------ C11
\* The call for k has chosen task[k].cards among the candidates run.source.
Selected(k) == task[k].pc = "image"

\* The positions of a candidate list that hold the first candidate of a set.
leaders(s) == {p \in DOMAIN s : \A q \in 1..(p - 1) : SetOf(s[q]) # SetOf(s[p])}

\* The n-th smallest position of the set P.
nth(P, n) == CHOOSE p \in P : Cardinality({q \in P : q <= p}) = n

\* C11: in Bulk mode, when the candidates hold at least `limit` distinct sets
\* (limit >= 1), exactly `limit` cards are chosen, of pairwise different sets:
\* the first candidate of each of the first `limit` sets in input order.
C11_FirstPass ==
  \A k \in Keys :
    (Selected(k) /\ task[k].github /\ task[k].limit >= 1
       /\ Cardinality(leaders(run.source)) >= task[k].limit) =>
      LET c == task[k].cards
      IN /\ Len(c) = task[k].limit
         /\ \A i, j \in DOMAIN c : i # j => SetOf(c[i]) # SetOf(c[j])
         /\ \A j \in DOMAIN c : c[j] = run.source[nth(leaders(run.source), j)]

\* With limit 3, candidates of three sets, the second of them a further card
\* of the first set, gave one card per set.
C11_Witness ==
  \E k \in Keys :
    /\ Selected(k)
    /\ task[k].github
    /\ task[k].limit = 3
    /\ run.source = <<1, 2, 3, 5>>
    /\ task[k].cards = <<1, 3, 5>>

\* ------------------------------------------------------------------ C12
\* A candidate list without repeated card id.
distinctIds(s) == \A i, j \in DOMAIN s : i # j => s[i] # s[j]

\* The positions of s in the order C12 gives: the first of each set, then the
\* others, each group in input order.
fallbackOrder(s, n) ==
  LET L == leaders(s)
      R == DOMAIN s \ L
  IN IF n <= Cardinality(L) THEN nth(L, n) ELSE nth(R, n - Cardinality(L))

\* C12: in Bulk mode, for candidates with distinct ids and limit >= 1, exactly
\* min(limit, number of candidates) cards are chosen: the first of each set in
\* input order, followed by the candidates not yet chosen in input order.
C12_Fallback ==
  \A k \in Keys :
    (Selected(k) /\ task[k].github /\ task[k].limit >= 1
       /\ distinctIds(run.source)) =>
      LET c == task[k].cards
      IN /\ Len(c) = Min(task[k].limit, Len(run.source))
         /\ \A j \in DOMAIN c : c[j] = run.source[fallbackOrder(run.source, j)]

\* With limit 3, candidates of two sets gave the first of each set and then
\* the first candidate passed over.
C12_Witness ==
  \E k \in Keys :
    /\ Selected(k)
    /\ task[k].github
    /\ task[k].limit = 3
    /\ run.source = <<2, 1, 3, 4>>
    /\ task[k].cards = <<2, 3, 1>>

\* ------------------------------------------------------------------ C13
\* C13: the cards chosen are the same in Remote mode as in Bulk mode, the
\* selection with its fallback pass, for the same candidates and limit.
C13_SourceAgnostic ==
  \A k \in Keys :
    Selected(k) => task[k].cards = diversifyCards(run.source, task[k].limit)

\* ------------------------------------------------------------------ C14
\* C14: for every limit >= 0 at most `limit` cards are chosen, none twice,
\* each of them a candidate.
C14_SelectionBound ==
  \A k \in Keys :
    task[k].pc # "lookup" =>
      LET c == task[k].cards
      IN /\ Len(c) <= task[k].limit
         /\ \A i, j \in DOMAIN c : i # j => c[i] # c[j]
         /\ Range(c) \subseteq Range(run.source)

\* ------------------------------------------------------------------ C15
\* The step is the loop of downloadRange taking the result of the call for k.
Collected(k) == task[k].pc = "returned" /\ task'[k].pc = "idle" /\ run'.cmd = run.cmd

\* The call for k that just returned wrote .empty with the given reasons.
Marked(k, reasons) ==
  Returned(k) /\ task[k].res.wroteEmpty /\ cache[k].empty \in reasons

\* C15: a call whose Remote fetch failed on every attempt has written .empty
\* with the failure reason, has written no metadata.json (the file is as the
\* call found it) and has thrown; the scheduler then increments failed and
\* no other counter.
C15_FetchFailure ==
  [][\A k \in DOMAIN lastCall :
       /\ Marked(k, {ApiFailed})' =>
            /\ task'[k].res.threw
            /\ ~task'[k].github
            /\ ~task'[k].res.wroteMeta
            /\ cache'[k].hasMeta = task'[k].pre.hasMeta
            /\ cache'[k].cards = task'[k].pre.cards
       /\ (Marked(k, {ApiFailed}) /\ Collected(k)) =>
            run'.stats = [run.stats EXCEPT !.failed = @ + 1]]_vars

\* A run whose only key failed at the fetch is counted: failed 1, success 0,
\* skipped 0, with .empty and no metadata.json on disk.
C15_Witness ==
  /\ run.cmd = "download"
  /\ run.stats.failed = 1
  /\ run.stats.success = 0
  /\ run.stats.skipped = 0
  /\ lastCall[1].threw
  /\ cache[1].empty = ApiFailed
  /\ ~cache[1].hasMeta

\* ------------------------------------------------------------------ C16
\* C16: a call whose data source answered with zero candidates has written
\* .empty with a no-cards reason, has downloaded nothing, has written no
\* metadata.json and has returned {skipped: false, count: 0} without
\* throwing; the scheduler then counts the key as success, not as failed.
C16_ZeroCandidates ==
  [][\A k \in DOMAIN lastCall :
       /\ Marked(k, {NoCardsFound, NoCardsInGithub})' =>
            /\ ~task'[k].res.threw
            /\ ~task'[k].res.skipped
            /\ task'[k].res.count = 0
            /\ task'[k].wrote = {}
            /\ cache'[k].png = task'[k].pre.png
            /\ ~task'[k].res.wroteMeta
            /\ cache'[k].hasMeta = task'[k].pre.hasMeta
            /\ (cache'[k].empty = NoCardsInGithub) = task'[k].github
       /\ (Marked(k, {NoCardsFound, NoCardsInGithub}) /\ Collected(k)) =>
            run'.stats = [run.stats EXCEPT !.success = @ + 1]]_vars

\* A run whose only key has no card in the bulk data is counted: success 1,
\* failed 0, no card downloaded.
C16_Witness ==
  /\ run.cmd = "download"
  /\ run.stats.success = 1
  /\ run.stats.failed = 0
  /\ run.stats.cardsDownloaded = 0
  /\ lastCall[1].wroteEmpty
  /\ ~lastCall[1].threw
  /\ cache[1].empty = NoCardsInGithub
  /\ pngFiles(cache[1]) = {}

\* ------------------------------------------------------------------ C17
\* C17: a call that chose cards goes through every one of them whatever
\* downloads fail, does not throw and writes metadata.json; metadata.cards
\* lists exactly the ordinals whose image this call downloaded, each with its
\* card, the other ordinals hold what was there before or a truncated file;
\* the call returns {skipped: false, count: number of images downloaded}.
C17_ImageFailureIsolated ==
  \A k \in DOMAIN lastCall :
    (Returned(k) /\ task[k].res.looked /\ ~task[k].res.wroteEmpty) =>
      LET t == task[k]
          listed == {t.meta[n].filename : n \in DOMAIN t.meta}
      IN /\ ~t.res.threw
         /\ ~t.res.skipped
         /\ t.i = Len(t.cards) + 1
         /\ t.res.wroteMeta
         /\ cache[k].hasMeta
         /\ cache[k].cards = t.meta
         /\ t.res.count = Cardinality(listed)
         /\ Len(t.meta) = Cardinality(listed)
         /\ listed \subseteq DOMAIN t.cards
         /\ \A n \in DOMAIN t.meta : t.meta[n].cardId = t.cards[t.meta[n].filename]
         /\ \A f \in DOMAIN t.cards :
              IF f \in listed
              THEN f \in t.wrote /\ cache[k].png[f] = t.cards[f]
              ELSE IF f \in t.wrote THEN cache[k].png[f] = Truncated
              ELSE cache[k].png[f] = t.pre.png[f]

\* Of two chosen cards the first download failed and the second succeeded:
\* the call returned count 1 and metadata.json lists 02.png only.
C17_Witness ==
  \E k \in DOMAIN lastCall :
    /\ Returned(k)
    /\ Len(task[k].cards) = 2
    /\ task[k].pre = mkdir(Absent)
    /\ task[k].res.count = 1
    /\ listedFiles(cache[k]) = {2}
    /\ pngFiles(cache[k]) = {2}

\* ------------------------------------------------------------------ C18
\* What holds of a retryWithBackoff invocation r at any time.
retryShape(r) ==
  /\ r.calls <= RETRY_ATTEMPTS
  /\ r.waits = [n \in 1..Len(r.waits) |-> RETRY_DELAY * 2^(n - 1)]
  /\ r.waiting => (r.calls = Len(r.errors) /\ r.calls < RETRY_ATTEMPTS)
  /\ r.done = "no" =>
       /\ Len(r.waits) = Len(r.errors)
       /\ r.calls = Len(r.errors) + (IF r.pending THEN 1 ELSE 0)
  /\ r.done = "returned" =>
       /\ r.calls = Len(r.errors) + 1
       /\ Len(r.waits) = Len(r.errors)
  /\ r.done = "threw" =>
       /\ r.calls = RETRY_ATTEMPTS
       /\ Len(r.errors) = RETRY_ATTEMPTS
       /\ Len(r.waits) = RETRY_ATTEMPTS - 1
       /\ r.thrown = r.errors[RETRY_ATTEMPTS]

\* The step from the invocation state old to r is one invocation of fn, in
\* the invocation in progress or in a new one.
attemptMade(old, r) ==
  /\ r.site \in {"fetch", "image"}
  /\ r.calls = (IF old.done = "no" /\ old.site = r.site THEN old.calls ELSE 0) + 1

\* C18: retryWithBackoff invokes fn at most RETRY_ATTEMPTS times; it returns
\* at the first successful attempt and makes no further one; before attempt
\* n + 1 it has waited RETRY_DELAY * 2^(n-1) ms after the n-th failure (2000,
\* 4000); after the last failure it rethrows that attempt's error without
\* waiting.  Every network access of a call (the Remote fetch, every image
\* download) is an attempt of such an invocation, and the Bulk lookup is not.
C18_BoundedRetry ==
  [][\A k \in Keys :
       LET old == task[k].retry
           r == task'[k].retry
       IN /\ retryShape(r)
          /\ old.done # "no" => (r = old \/ r.calls <= 1)
          /\ r.calls > old.calls => r.calls = old.calls + 1
          /\ (r.site = old.site /\ r.calls > old.calls /\ old.calls > 0) =>
               (~old.waiting /\ Len(old.waits) = old.calls)
          /\ r.site = "fetch" => ~task'[k].github
          /\ (task[k].pc = "lookup" /\ task[k].github) => r = old
          /\ (task'[k].net /\ ~task[k].net) => attemptMade(old, r)
          /\ (task'[k].wrote \ task[k].wrote # {}) =>
               (attemptMade(old, r) /\ r.site = "image")]_vars

\* A fetch failed three times with two kinds of error: retryWithBackoff
\* waited 2000 and 4000 ms and rethrew the third error.
C18_Witness ==
  \E k \in Keys :
    /\ Returned(k)
    /\ task[k].res.threw
    /\ task[k].retry.site = "fetch"
    /\ task[k].retry.calls = 3
    /\ task[k].retry.waits = <<2000, 4000>>
    /\ task[k].retry.errors = <<"http", "http", "network">>
    /\ task[k].retry.thrown = "network"

\* ------------------------------------------------------------------ C19
\* C19: when the Remote API answers HTTP 200 with a body that is not JSON the
\* attempt fails with an error of its own, which retryWithBackoff handles as
\* any other: the run goes on, and at the last attempt the key gets .empty
\* and the call throws to the scheduler.
C19_MalformedIsRetried ==
  [][\A k \in Keys :
       (task[k].retry.pending /\ task[k].retry.response = "malformed") =>
         /\ run'.cmd = run.cmd
         /\ task'[k].retry.errors = Append(task[k].retry.errors, "malformed")
         /\ task[k].retry.calls = RETRY_ATTEMPTS =>
              (cache'[k].empty = ApiFailed /\ task'[k].res.threw)]_vars

\* ------------------------------------------------------------------ C20
\* C20: once downloadRange has built its list, whatever calls fail, it stays
\* in its loop until every key of start..end was called exactly once, in
\* order, and then ends normally: no failure of a key ends the run.
C20_FailureIsolation ==
  [][(run.cmd = "download" /\ run.pc = "loop") =>
       /\ run'.cmd = "download"
       /\ run'.list = pokemonList(run.start, run.end)
       /\ \E n \in 0..Len(run'.list) : run'.calls = SubSeq(run'.list, 1, n)
       /\ Len(run'.calls) >= Len(run.calls)
       /\ run'.pc = "done" => run'.calls = run'.list]_vars

\* ------------------------------------------------------------------ C21
\* A downloadRange run without concurrency.
Sequential == run.cmd = "download" /\ run.concurrent <= 1

\* C21: in a sequential downloadRange run at most one call is in flight; a
\* call starts only when no call is in flight, for the key that follows the
\* previous one (the first for start), and after one delay has elapsed for
\* each of the calls made before it.
C21_SequentialOrder ==
  [][Sequential' =>
       /\ Cardinality(inFlight') <= 1
       /\ run'.calls # run.calls =>
            /\ inFlight = {}
            /\ ~run.pause
            /\ run.delays = Len(run.calls)
            /\ run'.calls = Append(run.calls, run.start + Len(run.calls))]_vars

\* The call for key 2 is in flight after the call for key 1 threw and the
\* delay elapsed.
C21_Witness ==
  /\ Sequential
  /\ run.calls = <<1, 2>>
  /\ run.stats.failed = 1
  /\ run.delays = 1
  /\ task[2].pc = "lookup"

\* ------------------------------------------------------------------ C22
\* A downloadRange or downloadMissing run with --concurrent c > 1.
Chunked == run.cmd \in {"download", "downloadMissing"} /\ run.concurrent > 1

\* C22: in a concurrent run the list is ascending and at most c calls are in
\* flight; calls start only when no call is in flight, as the next c keys of
\* the list (fewer at its end), after one elapsed delay for each chunk
\* started before; the run ends having called the whole list, with one delay
\* less than it had chunks.
C22_Chunks ==
  [][Chunked' =>
       /\ \A i, j \in DOMAIN run'.list : i < j => run'.list[i] < run'.list[j]
       /\ Cardinality(inFlight') <= run'.concurrent
       /\ run'.calls # run.calls =>
            /\ inFlight = {}
            /\ ~run.pause
            /\ Len(run.calls) % run.concurrent = 0
            /\ run'.calls = run.calls \o
                  SubSeq(run.list, Len(run.calls) + 1,
                         Min(Len(run.calls) + run.concurrent, Len(run.list)))
            /\ run.delays = Len(run.calls) \div run.concurrent
       /\ (run'.pc = "done" /\ run'.list # <<>>) =>
            /\ run'.calls = run'.list
            /\ run'.delays =
                 (Len(run'.list) + run'.concurrent - 1) \div run'.concurrent - 1]_vars

\* With --concurrent 2 and five keys, the third chunk is the single last key,
\* in flight after two delays and a failure in an earlier chunk.
C22_Witness ==
  /\ Chunked
  /\ run.concurrent = 2
  /\ Len(run.list) = 5
  /\ run.calls = run.list
  /\ inFlight = {5}
  /\ run.delays = 2
  /\ run.stats.failed >= 1

\* ------------------------------------------------------------------ C23
\* C23: the calls a concurrent run starts are for pairwise distinct keys, and
\* the calls in flight are among them: no two calls in flight are for the
\* same key.
C23_DistinctKeys ==
  Chunked =>
    /\ \A i, j \in DOMAIN run.calls : i # j => run.calls[i] # run.calls[j]
    /\ inFlight \subseteq Range(run.calls)

\* A --download-missing --retry-failed run has two calls in flight, for a key
\* the analysis found marked empty and a key it found missing or incomplete.
C23_Witness ==
  /\ Chunked
  /\ run.cmd = "downloadMissing"
  /\ Len(run.analysis.empty) = 1
  /\ Len(run.analysis.missing) + Len(run.analysis.incomplete) = 1
  /\ Cardinality(inFlight) = 2
  /\ \A k \in inFlight : task[k].pc = "lookup"

\* ------------------------------------------------------------------ C24
\* The number of cards a result adds to cardsDownloaded.
counted(res) == IF res.threw \/ res.skipped THEN 0 ELSE res.count

RECURSIVE SumCounted(_)
\* The sum of counted over the latest results of the keys of a list.
SumCounted(list) ==
  IF list = <<>> THEN 0
  ELSE counted(lastCall[Head(list)]) + SumCounted(Tail(list))

\* C24: when a downloadRange run reaches its summary, total is the number of
\* keys of the range, each counter is the number of keys whose call ended
\* that way, so that success + skipped + failed = total, and cardsDownloaded
\* is the sum of the counts the successful calls returned.
C24_NoLostUpdate ==
  (run.cmd = "download" /\ run.pc = "done") =>
    LET range == run.start..run.end
        st == run.stats
    IN /\ st.total = Cardinality(range)
       /\ st.failed = Cardinality({k \in range : lastCall[k].threw})
       /\ st.skipped = Cardinality({k \in range : lastCall[k].skipped})
       /\ st.success = Cardinality({k \in range : ~lastCall[k].threw /\ ~lastCall[k].skipped})
       /\ st.success + st.skipped + st.failed = st.total
       /\ st.cardsDownloaded = SumCounted(run.list)

\* A run with --concurrent 2 over two keys ended with one card downloaded
\* for each.
C24_Witness ==
  /\ run.cmd = "download"
  /\ run.pc = "done"
  /\ run.concurrent = 2
  /\ run.list = <<1, 2>>
  /\ run.stats.success = 2
  /\ run.stats.cardsDownloaded = 2

\* ------------------------------------------------------------------ C25
\* C25: when the second, concurrent run of the comparison is over, the cache
\* is the one the sequential run left from the same initial cache, with the
\* same options and the same data source.
C25_SameCache ==
  (mock.stage = 2 /\ run.pc \in {"done", "idle"}) => cache = mock.first

\* ------------------------------------------------------------------ C26
\* C26: every downloadRange and downloadMissing invocation that returns has
\* rewritten the global metadata file, and the file is rewritten only once
\* every key of the run has been called and has settled.
C26_MetadataSaved ==
  /\ (run.cmd \in {"download", "downloadMissing"} /\ run.pc = "done") => run.saved
  /\ run.saved => (inFlight = {} /\ run.calls = run.list)

\* ------------------------------------------------------------------ C27
\* select(candidates, limit) as the specification defines it: the first
\* candidate of each set in input order, then the candidates passed over,
\* min(limit, number of candidates) in all.
select(s, n) == [j \in 1..Min(n, Len(s)) |-> s[fallbackOrder(s, j)]]

\* C27: when a Bulk-mode run over an empty cache with every image download
\* succeeding reaches its summary, a key with candidates holds the images of
\* select(candidates, limit) in order, the metadata.json that lists them and
\* no .empty; a key without candidates holds .empty only.
C27_Population ==
  (run.cmd = "download" /\ run.pc = "done" /\ mock.adapter # <<>>) =>
    \A k \in Keys :
      LET d == cache[k]
          candidates == mock.adapter[k].cards
          chosen == select(candidates, run.limit)
      IN IF candidates = <<>>
         THEN /\ d.dir
              /\ d.empty # NoMarker
              /\ pngFiles(d) = {}
              /\ ~d.hasMeta
         ELSE /\ d.empty = NoMarker
              /\ d.hasMeta
              /\ pngFiles(d) = DOMAIN chosen
              /\ \A j \in DOMAIN chosen : d.png[j] = chosen[j]
              /\ d.cards = [j \in DOMAIN chosen |->
                              [filename |-> j, cardId |-> chosen[j]]]

\* ------------------------------------------------------------------ C28
\* C28: the step in which analyzeCache runs, for --analyze or at the start of
\* downloadMissing, leaves every directory as it was and starts no call, so
\* that no request goes out.
C28_AnalyzerReadOnly ==
  [][(run.cmd = "none" /\ run'.cmd \in {"analyze", "downloadMissing"}) =>
       /\ cache' = cache
       /\ task' = task
       /\ inFlight' = {}]_vars

\* An analysis of the range 1-2 has run on a cache that holds a directory
\* with a marker and lacks the other directory.
C28_Witness ==
  /\ run.cmd = "analyze"
  /\ run.pc = "done"
  /\ run.analysis.total = 2
  /\ run.analysis.empty = <<1>>
  /\ run.analysis.missing = <<2>>
  /\ ~cache[2].dir

\* ------------------------------------------------------------------ C29
\* C29: an invocation with --download, --download-missing or --analyze and
\* neither --range nor --all ends with the usage message and a non-zero exit
\* code, the cache untouched and no call started; and a batch run leaves its
\* loop only to complete with exit code 0, whatever calls failed.
C29_ExitStatus ==
  [][/\ (/\ run.cmd = "none"
          /\ run'.cmd # "none"
          /\ run'.flags \cap {"download", "downloadMissing", "analyze"} # {}) =>
            /\ run'.cmd = "usage"
            /\ run'.pc = "done"
            /\ run'.exit # 0
            /\ cache' = cache
            /\ task' = task
     /\ (/\ run.cmd \in {"download", "downloadMissing"}
          /\ run.pc = "loop"
          /\ run'.pc # "loop") =>
            /\ run'.pc = "done"
            /\ run'.exit = 0]_vars

\* ------------------------------------------------------------------ C30
\* C30: every request that was sent settles, and every run that entered its
\* loop leaves it.
C30_TransportSettles ==
  /\ task[1].retry.pending ~> ~task[1].retry.pending
  /\ (run.pc = "loop") ~> (run.pc # "loop")

\* ------------------------------------------------------------------ claim C31
\* C31: at every point of downloadPokemonCards, an interruption of the process
\* included, the metadata.json of the key is absent or holds a whole record
\* (the previous one or the new one): it is never there empty or written in
\* part.
C31_AtomicMetadataWrite == \A k \in Keys : ~(cache[k].hasMeta /\ cache[k].torn)

\* ------------------------------------------------------------------ claim C32
\* A call on a key that had no metadata.json, at a point before it writes the
\* file: from its start to the end of the image loop.
BeforeMetadata(k) ==
  /\ task[k].pc \in {"begin", "lookup", "image", "meta"}
  /\ ~task[k].pre.hasMeta

\* The step in which the process is killed.
Interrupted == run.pc = "loop" /\ run'.cmd = "none"

\* Whether a --download-missing over the key k alone, on the cache c, has k
\* in its list.
targeted(c, k, retryFailed) ==
  k \in Range(toDownload(analyzeCache(variant, c, k, k), retryFailed))

\* C32: for a key with no prior metadata.json, metadata.json exists only
\* after the download attempt of every selected image has finished; a process
\* killed before that leaves a key that analyzeCache does not classify
\* complete and that a later --download-missing has in its list.
C32_MetadataLast ==
  [][\A k \in Keys :
       BeforeMetadata(k) =>
         /\ ~cache[k].hasMeta
         /\ Interrupted => /\ classify(variant, cache'[k]) # "complete"
                           /\ targeted(cache', k, FALSE)]_vars

\* C32 amended: the same, the later --download-missing having the key in its
\* list when the key holds an image file or no .empty marker, and only with
\* --retry-failed when the key holds nothing but the .empty marker of an
\* earlier failed lookup.
C32_MetadataLastUnlessMarked ==
  [][\A k \in Keys :
       BeforeMetadata(k) =>
         /\ ~cache[k].hasMeta
         /\ Interrupted =>
              /\ classify(variant, cache'[k]) # "complete"
              /\ targeted(cache', k, TRUE)
              /\ targeted(cache', k, FALSE)
                   <=> (pngFiles(cache'[k]) # {} \/ cache'[k].empty = NoMarker)]_vars

\* A killed call left image files and no metadata.json.
C32_Witness ==
  /\ run.cmd = "none"
  /\ pngFiles(cache[1]) # {}
  /\ ~cache[1].hasMeta

\* ------------------------------------------------------------------ claim C33
\* The three states of a key that is not complete: Absent (no directory),
\* Empty (only .empty) and Incomplete (image files without metadata.json).
OnlyMarker(d) == d.dir /\ d.empty # NoMarker /\ pngFiles(d) = {} /\ ~d.hasMeta
Incomplete(d) == d.dir /\ pngFiles(d) # {} /\ ~d.hasMeta
NonComplete(d) == ~d.dir \/ OnlyMarker(d) \/ Incomplete(d)

\* C33: a call without --force on a key that is Absent, Empty or Incomplete
\* does not return skipped; it asks the data source for the key's cards, and
\* when the lookup yields cards and every selected image is downloaded,
\* analyzeCache classifies the key complete afterwards.
C33_ReEnterable ==
  \A k \in Keys :
    (Returned(k) /\ ~task[k].force /\ NonComplete(task[k].pre)) =>
      /\ ~task[k].res.skipped
      /\ task[k].res.looked
      /\ (~task[k].res.threw /\ task[k].cards # <<>>
            /\ task[k].res.count = Len(task[k].cards))
           => classify(variant, cache[k]) = "complete"

\* A call without --force on a key that held only .empty has downloaded
\* every selected image.
C33_Witness ==
  /\ Returned(1)
  /\ ~task[1].force
  /\ OnlyMarker(task[1].pre)
  /\ task[1].cards # <<>>
  /\ task[1].res.count = Len(task[1].cards)
  /\ classify(variant, cache[1]) = "complete"

\* ------------------------------------------------------------------ claim C34
\* The run has just analysed the cache: --analyze or the start of
\* --download-missing.
Analysed == run'.cmd \in {"analyze", "downloadMissing"} /\ run.cmd = "none"

\* No call is at work on the key k: none is in flight, or the one in flight
\* has not made its skip test yet or has returned.
AtRest(k) == task[k].pc \in {"idle", "begin", "returned"}

C35_ContiguousFilenames ==
  \A k \in Keys :
    (Returned(k) /\ task[k].res.wroteMeta) =>
      /\ Len(cache[k].cards) = task[k].res.count
      /\ \A n \in DOMAIN cache[k].cards : cache[k].cards[n].filename = n

\* ------------------------------------------------------------------ claim C36
\* cleanEmpty runs in this step.
Cleaning == run.cmd = "none" /\ run'.cmd = "none"

\* The directory exists and readdir lists nothing, or .empty alone.
NothingButMarker(d) == d.dir /\ pngFiles(d) = {} /\ ~d.hasMeta

\* C36: cleanEmpty removes the directory of a key if and only if the
\* directory is empty or holds .empty as its only entry; it never removes or
\* modifies a directory that holds an image file or metadata.json, and it
\* leaves the global metadata.json alone.
C36_CleanEmptyScope ==
  [][Cleaning =>
       /\ \A k \in Keys :
            /\ NothingButMarker(cache[k]) => cache'[k] = Absent
            /\ ~NothingButMarker(cache[k]) => cache'[k] = cache[k]
       /\ run'.saved = run.saved]_vars

\* cleanEmpty removed the directory of key 1, which held .empty alone, and
\* left the directory of key 2, which holds .empty, an image and
\* metadata.json, as it was; no run has started.
C36_Witness ==
  /\ run.cmd = "none"
  /\ OnlyMarker(mock.init[1])
  /\ cache[1] = Absent
  /\ mock.init[2].empty # NoMarker
  /\ Complete(mock.init[2])
  /\ cache[2] = mock.init[2]

\* ------------------------------------------------------------------ claim C37
\* How many times k occurs in the sequence s.
occurrences(s, k) == Cardinality({n \in DOMAIN s : s[n] = k})

\* --download-missing without --retry-failed starts in this step.
PlainRetryStarts ==
  run.cmd = "none" /\ run'.cmd = "downloadMissing" /\ ~run'.retryFailed

\* C37: after cleanEmpty, every key that held .empty alone is classified
\* missing by analyzeCache, and a --download-missing without --retry-failed
\* that follows has each such key of its range once in its list and calls
\* downloadPokemonCards once for each key of its list.
C37_CleanThenRetry ==
  [][/\ Cleaning =>
          \A k \in Keys :
            OnlyMarker(cache[k]) => /\ classify(variant, cache'[k]) = "missing"
                                    /\ targeted(cache', k, FALSE)
     /\ PlainRetryStarts =>
          \A k \in run'.start..run'.end :
            classify(variant, cache[k]) = "missing"
              => /\ k \in Range(run'.analysis.missing)
                 /\ occurrences(run'.list, k) = 1
     /\ (run.cmd = "downloadMissing" /\ run'.pc = "done") =>
          \A k \in Keys : occurrences(run'.calls, k) = occurrences(run'.list, k)]_vars

\* Key 1 held .empty alone, cleanEmpty removed its directory, and the
\* --download-missing without --retry-failed of the second variant that
\* followed found it missing, called downloadPokemonCards for it and is over.
C37_Witness ==
  /\ variant = 2
  /\ OnlyMarker(mock.init[1])
  /\ run.cmd = "downloadMissing"
  /\ ~run.retryFailed
  /\ run.pc = "done"
  /\ 1 \in Range(run.analysis.missing)
  /\ occurrences(run.calls, 1) = 1

\* ------------------------------------------------------------------ claim C38
\* The call for k found at least one card, downloaded none of the selected
\* images and has returned.
AllImagesFailed(k) ==
  /\ Returned(k)
  /\ task[k].cards # <<>>
  /\ task[k].res.wroteMeta
  /\ task[k].meta = <<>>

\* C38: when the lookup returns at least one card and every selected image
\* download fails, downloadPokemonCards writes metadata.json with an empty
\* cards list and no .empty marker and returns {skipped: false, count: 0},
\* which the loop counts as a success; afterwards a call without --force does
\* not skip the key and --download-missing has it in its list.
C38_AllImagesFailed ==
  \A k \in Keys :
    AllImagesFailed(k) =>
      /\ cache[k].hasMeta /\ cache[k].cards = <<>>
      /\ cache[k].empty = NoMarker
      /\ ~task[k].res.skipped /\ ~task[k].res.threw /\ task[k].res.count = 0
      /\ account(run.cmd, ZeroStats, task[k].res).success = 1
      /\ LET existing == checkPokemonDownloaded(cache[k])
         IN ~(existing.exists /\ existing.hasMetadata)
      /\ targeted(cache, k, FALSE)

\* ------------------------------------------------------------------ claim C39
\* C39: for every candidate list with distinct card ids and every limit of 1
\* or more, diversifyCards applied to its own result, with the same limit,
\* returns that result, element for element and in the same order.
C39_SelectionIdempotent ==
  \A k \in Keys :
    (Selected(k) /\ task[k].github /\ task[k].limit >= 1 /\ distinctIds(run.source)) =>
      diversifyCards(task[k].cards, task[k].limit) = task[k].cards

\* The selection took three cards out of four and not the first three: the
\* second pass filled up behind the first card of each set.
C39_Witness ==
  /\ Selected(1)
  /\ task[1].github
  /\ task[1].limit = 3
  /\ distinctIds(run.source)
  /\ Len(run.source) = 4
  /\ Len(task[1].cards) = 3
  /\ task[1].cards # SubSeq(run.source, 1, 3)
  /\ SetOf(task[1].cards[3]) \in {SetOf(task[1].cards[1]), SetOf(task[1].cards[2])}
====
